---- MODULE Spec2Model ----
(***************************************************************************)
(* Model of the Google Sheets backend (src/src/services/sheetsService.js): *)
(* the sheet data builder prepareSheetData and the orchestrator            *)
(* createEventSheet with its remote calls.                                 *)
(***************************************************************************)
EXTENDS Integers, Sequences, FiniteSets, TLC

(***************************************************************************)
(* Bounds of the model.                                                    *)
(***************************************************************************)
MaxRegs == 2

MaxFields == 3

(***************************************************************************)
(* JavaScript values.  Every value is a record of one shape so that any    *)
(* two values can be compared: t is the kind, s the text of a string, n    *)
(* the number, a the elements of an array.                                 *)
(***************************************************************************)
Undef == [t |-> "undefined", s |-> "", n |-> 0, a |-> <<>>]

Null == [t |-> "null", s |-> "", n |-> 0, a |-> <<>>]

Str(x) == [t |-> "string", s |-> x, n |-> 0, a |-> <<>>]

Num(k) == [t |-> "number", s |-> "", n |-> k, a |-> <<>>]

True == [t |-> "true", s |-> "", n |-> 0, a |-> <<>>]

False == [t |-> "false", s |-> "", n |-> 0, a |-> <<>>]

Arr(elems) == [t |-> "array", s |-> "", n |-> 0, a |-> elems]

\* JavaScript truthiness: undefined, null, "", 0 and false are falsy.
Truthy(v) ==
    \/ v.t = "string" /\ v.s # ""
    \/ v.t = "number" /\ v.n # 0
    \/ v.t \in {"true", "array", "object"}

\* a || b
Or(a, b) == IF Truthy(a) THEN a ELSE b

\* String(v) of a scalar
ScalarString(v) ==
    CASE v.t = "string" -> v.s
      [] v.t = "number" -> ToString(v.n)
      [] v.t = "true" -> "true"
      [] v.t = "false" -> "false"
      [] v.t = "null" -> "null"
      [] v.t = "undefined" -> "undefined"
      [] OTHER -> "[object Object]"

\* One element inside Array.prototype.join: null and undefined give "".
JoinElement(v) == IF v.t \in {"null", "undefined"} THEN "" ELSE ScalarString(v)

RECURSIVE Join(_, _)
\* Array.prototype.join(sep)
Join(elems, sep) ==
    IF Len(elems) = 0 THEN ""
    ELSE IF Len(elems) = 1 THEN JoinElement(elems[1])
    ELSE JoinElement(elems[1]) \o sep \o Join(Tail(elems), sep)

\* String(v)
JsString(v) == IF v.t = "array" THEN Join(v.a, ",") ELSE ScalarString(v)

\* typeof v === 'string'
IsString(v) == v.t = "string"

\* Array.isArray(v)
IsArray(v) == v.t = "array"

\* An entry of a list is null, undefined, a primitive or an object:
\* !x || typeof x !== 'object' is true of everything but an object.
IsObjectEntry(x) == x.t = "object"

\* x?.p when x is null or undefined
Nullish(x) == x.t \in {"null", "undefined"}

(***************************************************************************)
(* The inputs.  An event, a custom field definition and a registration are *)
(* records holding every property the code reads; an absent property is    *)
(* Undef.  The kind t of the record tells an object from null, undefined   *)
(* or a primitive put in its place.                                        *)
(***************************************************************************)
\* One entry of eventData.custom_fields.
FieldDef(kind, id, label) ==
    [t |-> kind, id |-> id, label |-> label, type |-> Undef]

\* eventData.custom_fields: kind "array" with the entries, or another kind.
FieldList(kind, entries) == [t |-> kind, a |-> entries]

NoEvent(kind) ==
    [t |-> kind, id |-> Undef, title |-> Undef, custom_fields |-> FieldList("undefined", <<>>),
     payment_required |-> Undef, requires_payment |-> Undef,
     payment_amount |-> Undef, participation_type |-> Undef]

\* reg.additional_info.custom_fields: the values by field id.
FieldIds == {"f1", "f2", "f3"}

NoValues == [t |-> "undefined", m |-> [i \in FieldIds |-> Undef]]

Values(m) == [t |-> "object", m |-> m]

\* reg.additional_info.team_members
NoMembers == [t |-> "undefined", a |-> <<>>]

Member(name, department, year) ==
    [name |-> name, department |-> department, year |-> year,
     rollNumber |-> Undef, scholar_id |-> Undef]

Members(list) == [t |-> "array", a |-> list]

NoInfo(kind) ==
    [t |-> kind, department |-> Undef, year |-> Undef, team_name |-> Undef,
     custom_fields |-> NoValues, team_members |-> NoMembers]

\* A registration with no property at all; kind "object" is {}.
NoReg(kind) ==
    [t |-> kind,
     participant_name |-> Undef, participant_email |-> Undef,
     participant_phone |-> Undef, participant_student_id |-> Undef,
     participant_id |-> Undef, participant_department |-> Undef,
     participant_year |-> Undef, registration_type |-> Undef,
     status |-> Undef, attendance_status |-> Undef,
     attendance_timestamp |-> Undef, created_at |-> Undef,
     payment_status |-> Undef, payment_amount |-> Undef,
     payment_screenshot_url |-> Undef,
     additional_info |-> NoInfo("undefined")]

\* reg.additional_info?.p
InfoGet(info, p) == IF Nullish(info) THEN Undef ELSE info[p]

\* reg.additional_info?.custom_fields?.[id]
CustomFieldValue(reg, id) ==
    IF Nullish(reg.additional_info) THEN Undef
    ELSE IF Nullish(reg.additional_info.custom_fields) THEN Undef
    ELSE IF id \in DOMAIN reg.additional_info.custom_fields.m
         THEN reg.additional_info.custom_fields.m[id]
         ELSE Undef

(***************************************************************************)
(* new Date(x).toLocaleString('en-IN'): the display text of a timestamp.   *)
(* A text that is no date gives "Invalid Date"; nothing here throws.       *)
(***************************************************************************)
toLocaleString(v) ==
    CASE v = Str("2024-01-15T10:00:00Z") -> "15/1/2024, 3:30:00 pm"
      [] v = Str("2024-01-20T04:30:00Z") -> "20/1/2024, 10:00:00 am"
      [] OTHER -> "Invalid Date"

\* String.prototype.includes
Includes(m, sub) ==
    \E i \in 1..(Len(m) - Len(sub) + 1) : SubSeq(m, i, i + Len(sub) - 1) = sub

(***************************************************************************)
(* prepareSheetData(eventData, registrations)                              *)
(***************************************************************************)
\* The fixed core columns.
CoreHeaders ==
    << Str("S.No."), Str("Name"), Str("Email"), Str("Phone"),
       Str("Student ID"), Str("Department"), Str("Year"),
       Str("Registration Type"), Str("Registration Status"),
       Str("Attendance Status"), Str("Attendance Time"),
       Str("Registration Date") >>

PaymentHeaders ==
    << Str("Payment Verified"), Str("Payment Amount"), Str("Payment Screenshot") >>

\* if (eventData.custom_fields && Array.isArray(eventData.custom_fields))
FieldEntries(eventData) ==
    IF eventData.custom_fields.t = "array" THEN eventData.custom_fields.a ELSE <<>>

\* The empty-registrations branch: if (field && field.label) push(field.label)
EmptyBranchKeeps(field) == ~Nullish(field) /\ Truthy(field.label)

RECURSIVE Labels(_)
Labels(fields) ==
    IF fields = <<>> THEN <<>> ELSE <<Head(fields).label>> \o Labels(Tail(fields))

\* eventData.payment_required || eventData.requires_payment
EventRequiresPayment(eventData) ==
    Truthy(Or(eventData.payment_required, eventData.requires_payment))

EmptySheetHeaders(eventData) ==
    CoreHeaders
      \o Labels(SelectSeq(FieldEntries(eventData), EmptyBranchKeeps))
      \o (IF EventRequiresPayment(eventData) THEN PaymentHeaders ELSE <<>>)
      \o <<Str("Notes")>>

\* The filter of the non-empty branch.
ValidCustomField(field) ==
    /\ IsObjectEntry(field)
    /\ Truthy(field.id) /\ IsString(field.id)
    /\ Truthy(field.label) /\ IsString(field.label)

customFieldsOf(eventData) == SelectSeq(FieldEntries(eventData), ValidCustomField)

\* reg.payment_screenshot_url || reg.payment_status || reg.payment_amount;
\* reading a property of null or undefined throws, which the callback
\* catches and answers false.
RegHasPaymentInfo(reg) ==
    /\ ~Nullish(reg)
    /\ Truthy(Or(Or(reg.payment_screenshot_url, reg.payment_status),
                 reg.payment_amount))

hasPaymentInfoOf(registrations) ==
    \E i \in 1..Len(registrations) : RegHasPaymentInfo(registrations[i])

\* hasPaymentInfo || paymentRequired
PaymentColumns(eventData, registrations) ==
    hasPaymentInfoOf(registrations) \/ EventRequiresPayment(eventData)

\* The header pushed for the custom field at 0-based position index.
CustomHeader(field, index) ==
    IF ~Nullish(field) /\ Truthy(field.label) /\ IsString(field.label)
    THEN field.label
    ELSE Str("Custom Field " \o ToString(index + 1))

\* Variant: the payment columns pushed before the custom field columns.
BuildHeaders_PaymentFirst(eventData, registrations) ==
    LET customFields == customFieldsOf(eventData)
    IN  CoreHeaders
          \o (IF PaymentColumns(eventData, registrations)
              THEN PaymentHeaders ELSE <<>>)
          \o [i \in 1..Len(customFields) |-> CustomHeader(customFields[i], i - 1)]
          \o <<Str("Notes")>>

BuildHeaders(eventData, registrations) ==
    LET customFields == customFieldsOf(eventData)
    IN  CoreHeaders
          \o [i \in 1..Len(customFields) |-> CustomHeader(customFields[i], i - 1)]
          \o (IF PaymentColumns(eventData, registrations)
              THEN PaymentHeaders ELSE <<>>)
          \o <<Str("Notes")>>

\* Variant: a list value joined with join()'s default separator.
CustomFieldCell_DefaultJoin(reg, field) ==
    IF Nullish(field) \/ ~Truthy(field.id) THEN Str("N/A")
    ELSE LET customFieldValue == CustomFieldValue(reg, field.id.s)
         IN  IF /\ customFieldValue.t # "undefined"
                /\ customFieldValue.t # "null"
                /\ customFieldValue # Str("")
             THEN IF IsArray(customFieldValue)
                  THEN IF Len(customFieldValue.a) > 0
                       THEN Str(Join(customFieldValue.a, ","))
                       ELSE Str("N/A")
                  ELSE Str(JsString(customFieldValue))
             ELSE Str("N/A")

\* The cell of one custom field in a processed row.
CustomFieldCell(reg, field) ==
    IF Nullish(field) \/ ~Truthy(field.id) THEN Str("N/A")
    ELSE LET customFieldValue == CustomFieldValue(reg, field.id.s)
         IN  IF /\ customFieldValue.t # "undefined"
                /\ customFieldValue.t # "null"
                /\ customFieldValue # Str("")
             THEN IF IsArray(customFieldValue)
                  THEN IF Len(customFieldValue.a) > 0
                       THEN Str(Join(customFieldValue.a, ", "))
                       ELSE Str("N/A")
                  ELSE Str(JsString(customFieldValue))
             ELSE Str("N/A")

\* Variant: the event's amount taken before the registration's own.
PaymentCells_EventAmountFirst(eventData, reg) ==
    << IF reg.payment_status = Str("verified") THEN Str("Yes") ELSE Str("No"),
       IF Truthy(eventData.payment_amount)
       THEN Str("₹" \o JsString(eventData.payment_amount))
       ELSE IF Truthy(reg.payment_amount)
            THEN Str("₹" \o JsString(reg.payment_amount))
            ELSE Str("N/A"),
       IF Truthy(reg.payment_screenshot_url)
          /\ reg.payment_screenshot_url # Str("N/A")
       THEN reg.payment_screenshot_url
       ELSE Str("N/A") >>

\* The three payment cells of a processed row.
PaymentCells(eventData, reg) ==
    << IF reg.payment_status = Str("verified") THEN Str("Yes") ELSE Str("No"),
       IF Truthy(reg.payment_amount)
       THEN Str("₹" \o JsString(reg.payment_amount))
       ELSE IF Truthy(eventData.payment_amount)
            THEN Str("₹" \o JsString(eventData.payment_amount))
            ELSE Str("N/A"),
       IF Truthy(reg.payment_screenshot_url)
          /\ reg.payment_screenshot_url # Str("N/A")
       THEN reg.payment_screenshot_url
       ELSE Str("N/A") >>

\* Variant: every missing core value falls back to 'N/A', the type, status
\* and attendance cells included.
CoreCells_AllNA(reg, index) ==
    << Num(index + 1),
       Or(reg.participant_name, Str("N/A")),
       Or(reg.participant_email, Str("N/A")),
       Or(reg.participant_phone, Str("N/A")),
       Or(Or(reg.participant_student_id, reg.participant_id), Str("N/A")),
       Or(Or(reg.participant_department,
             InfoGet(reg.additional_info, "department")), Str("N/A")),
       Or(Or(reg.participant_year, InfoGet(reg.additional_info, "year")),
          Str("N/A")),
       Or(reg.registration_type, Str("N/A")),
       Or(reg.status, Str("N/A")),
       Or(reg.attendance_status, Str("N/A")),
       IF Truthy(reg.attendance_timestamp)
       THEN Str(toLocaleString(reg.attendance_timestamp)) ELSE Str("N/A"),
       IF Truthy(reg.created_at)
       THEN Str(toLocaleString(reg.created_at)) ELSE Str("N/A") >>

\* The twelve core cells of a processed row; index is 0-based.
CoreCells(reg, index) ==
    << Num(index + 1),
       Or(reg.participant_name, Str("N/A")),
       Or(reg.participant_email, Str("N/A")),
       Or(reg.participant_phone, Str("N/A")),
       Or(Or(reg.participant_student_id, reg.participant_id), Str("N/A")),
       Or(Or(reg.participant_department,
             InfoGet(reg.additional_info, "department")), Str("N/A")),
       Or(Or(reg.participant_year, InfoGet(reg.additional_info, "year")),
          Str("N/A")),
       Or(reg.registration_type, Str("Individual")),
       IF reg.status = Str("registered") THEN Str("Confirmed")
       ELSE Or(reg.status, Str("Confirmed")),
       IF reg.attendance_status = Str("attended") THEN Str("Attended")
       ELSE Str("Not Attended"),
       IF Truthy(reg.attendance_timestamp)
       THEN Str(toLocaleString(reg.attendance_timestamp)) ELSE Str("N/A"),
       IF Truthy(reg.created_at)
       THEN Str(toLocaleString(reg.created_at)) ELSE Str("N/A") >>

\* The try block of the row callback throws for these registrations.
RowThrows(reg) ==
    \/ ~IsObjectEntry(reg)
    \/ ~Truthy(reg.participant_name)
    \/ ~Truthy(reg.participant_email)

ProcessedRow(eventData, registrations, reg, index) ==
    LET customFields == customFieldsOf(eventData)
    IN  CoreCells(reg, index)
          \o [i \in 1..Len(customFields) |-> CustomFieldCell(reg, customFields[i])]
          \o (IF PaymentColumns(eventData, registrations)
              THEN PaymentCells(eventData, reg) ELSE <<>>)
          \o <<Str("")>>

\* The row built in the catch block of the row callback.
ErrorRow(eventData, registrations, reg, index) ==
    LET customFields == customFieldsOf(eventData)
    IN  << Num(index + 1),
           Or(reg.participant_name, Str("N/A")),
           Or(reg.participant_email, Str("N/A")),
           Str("ERROR"), Str("ERROR"), Str("ERROR"), Str("ERROR"),
           Str("ERROR"), Str("ERROR"), Str("ERROR") >>
          \o [i \in 1..Len(customFields) |-> Str("ERROR")]
          \o (IF PaymentColumns(eventData, registrations)
              THEN <<Str("ERROR"), Str("ERROR"), Str("ERROR")>> ELSE <<>>)
          \o <<Str("Processing Error")>>

\* The catch block reads reg.participant_name: a TypeError when reg is null
\* or undefined, which leaves the row callback and the whole map.
CatchThrows(reg) == RowThrows(reg) /\ Nullish(reg)

BuildRow(eventData, registrations, reg, index) ==
    IF RowThrows(reg)
    THEN ErrorRow(eventData, registrations, reg, index)
    ELSE ProcessedRow(eventData, registrations, reg, index)

\* The message rethrown by the outer catch of prepareSheetData.
PrepareRethrow(message) ==
    IF Includes(message, "Custom field")
    THEN "Custom field processing error: " \o message
    ELSE IF Includes(message, "Event data is required")
    THEN "Event data validation error: " \o message
    ELSE IF Includes(message, "payment")
    THEN "Payment data processing error: " \o message
    ELSE "Data preparation failed: " \o message
           \o ". Please check your event data and registration information."

Thrown(message) ==
    [thrown |-> TRUE, message |-> message, headers |-> <<>>, rows |-> <<>>]

Returned(headers, rows) ==
    [thrown |-> FALSE, message |-> "", headers |-> headers, rows |-> rows]

\* registrations is [t, a]: kind "array" with the entries, or another kind.
RegList(kind, entries) == [t |-> kind, a |-> entries]

prepareSheetData(eventData, registrations) ==
    IF Nullish(eventData)
    THEN Thrown(PrepareRethrow("Event data is required"))
    ELSE IF ~IsArray(registrations)
    THEN Thrown(PrepareRethrow("Registrations must be an array"))
    ELSE IF Len(registrations.a) = 0
    THEN Returned(EmptySheetHeaders(eventData), <<>>)
    ELSE IF \E i \in 1..Len(registrations.a) : CatchThrows(registrations.a[i])
    THEN LET i == CHOOSE j \in 1..Len(registrations.a) :
                    /\ CatchThrows(registrations.a[j])
                    /\ \A k \in 1..(j - 1) : ~CatchThrows(registrations.a[k])
         IN  Thrown(PrepareRethrow(
                 "Cannot read properties of " \o registrations.a[i].t
                   \o " (reading 'participant_name')"))
    ELSE Returned(
             BuildHeaders(eventData, registrations.a),
             [i \in 1..Len(registrations.a) |->
                 BuildRow(eventData, registrations.a, registrations.a[i], i - 1)])

(***************************************************************************)
(* createEventSheet(eventData, registrations, isAutoCreate): the checks    *)
(* made before the first remote call, and the catch block.                 *)
(***************************************************************************)
\* An error object: its message and its numeric code (0 when it has none).
Error(message, code) == [message |-> message, code |-> code]

NoError == Error("", 0)

\* typeof v
typeof(kind) ==
    CASE kind \in {"null", "array", "object"} -> "object"
      [] kind \in {"true", "false"} -> "boolean"
      [] OTHER -> kind

\* The throw of the forEach over eventData.custom_fields for one entry, or
\* "" when the entry passes; index is 0-based.
FieldCheckMessage(field, index) ==
    IF ~IsObjectEntry(field)
    THEN "Custom field at index " \o ToString(index)
           \o " is invalid: must be an object but received " \o typeof(field.t)
    ELSE IF ~Truthy(field.id) \/ ~IsString(field.id)
    THEN "Custom field at index " \o ToString(index)
           \o " is missing required 'id' property or id is not a string"
    ELSE IF ~Truthy(field.label) \/ ~IsString(field.label)
    THEN "Custom field at index " \o ToString(index)
           \o " is missing required 'label' property or label is not a string"
    ELSE ""

\* The message of the first entry that fails the strict check, "" if none.
StrictFieldsMessage(eventData) ==
    IF Nullish(eventData.custom_fields) THEN ""
    ELSE IF ~IsArray(eventData.custom_fields)
    THEN "Custom fields must be an array, but received: "
           \o typeof(eventData.custom_fields.t)
    ELSE LET a == eventData.custom_fields.a
             bad == {i \in 1..Len(a) : FieldCheckMessage(a[i], i - 1) # ""}
         IN  IF bad = {} THEN ""
             ELSE LET first == CHOOSE i \in bad : \A j \in bad : i <= j
                  IN  FieldCheckMessage(a[first], first - 1)

\* Variant: the strict check of the custom field definitions left out.
ValidationMessage_LenientFields(eventData, registrations, autoCreate) ==
    IF Nullish(eventData)
    THEN "Cannot read properties of " \o eventData.t \o " (reading 'title')"
    ELSE IF ~Truthy(eventData.title)
    THEN "Event title is required but was not provided"
    ELSE IF ~IsArray(registrations)
    THEN "Registrations must be provided as an array"
    ELSE IF Len(registrations.a) = 0 /\ ~autoCreate
    THEN "Cannot create sheet with no registrations"
    ELSE IF prepareSheetData(eventData, registrations).thrown
    THEN "Failed to prepare sheet data: "
           \o prepareSheetData(eventData, registrations).message
    ELSE ""

\* What the synchronous part of createEventSheet throws before the create
\* call, "" when every check passes.
ValidationMessage(eventData, registrations, autoCreate) ==
    IF Nullish(eventData)
    THEN "Cannot read properties of " \o eventData.t \o " (reading 'title')"
    ELSE IF ~Truthy(eventData.title)
    THEN "Event title is required but was not provided"
    ELSE IF ~IsArray(registrations)
    THEN "Registrations must be provided as an array"
    ELSE IF Len(registrations.a) = 0 /\ ~autoCreate
    THEN "Cannot create sheet with no registrations"
    ELSE IF StrictFieldsMessage(eventData) # ""
    THEN StrictFieldsMessage(eventData)
    ELSE IF prepareSheetData(eventData, registrations).thrown
    THEN "Failed to prepare sheet data: "
           \o prepareSheetData(eventData, registrations).message
    ELSE ""

\* reg.additional_info?.team_members?.length > 0
HasTeamMembers(reg) ==
    /\ ~Nullish(reg.additional_info)
    /\ reg.additional_info.team_members.t = "array"
    /\ Len(reg.additional_info.team_members.a) > 0

hasTeamRegistrations(registrations) ==
    \E i \in 1..Len(registrations.a) : HasTeamMembers(registrations.a[i])

supportsTeamRegistration(eventData) ==
    eventData.participation_type \in {Str("team"), Str("both")}

\* Variant: the Team Members tab is appended after the Dashboard tab.
SheetTitles_TeamTabAppended(eventData, registrations) ==
    IF supportsTeamRegistration(eventData) \/ hasTeamRegistrations(registrations)
    THEN <<"Registrations", "Dashboard", "Team Members">>
    ELSE <<"Registrations", "Dashboard">>

\* The tab set asked of spreadsheets.create.
SheetTitles(eventData, registrations) ==
    IF supportsTeamRegistration(eventData) \/ hasTeamRegistrations(registrations)
    THEN <<"Registrations", "Team Members", "Dashboard">>
    ELSE <<"Registrations", "Dashboard">>

\* A tab of the spreadsheet.
Tab(title, sheetId) == [title |-> title, sheetId |-> sheetId]

\* The tabs of the create response: those asked for, in the order asked,
\* each with the id the service gave it.
CreatedTabs(titles, ids) == [i \in 1..Len(titles) |-> Tab(titles[i], ids[i])]

\* The sheet ids createEventSheet reads from the create response, by
\* position; -1 stands for null.
registrationsSheetId(sheets) == sheets[1].sheetId

teamMembersSheetId(eventData, registrations, sheets) ==
    IF supportsTeamRegistration(eventData) \/ hasTeamRegistrations(registrations)
    THEN sheets[2].sheetId
    ELSE -1

dashboardSheetId(eventData, registrations, sheets) ==
    IF supportsTeamRegistration(eventData) \/ hasTeamRegistrations(registrations)
    THEN sheets[3].sheetId
    ELSE sheets[2].sheetId

\* The error rethrown by the catch block of createEventSheet.
CreateRethrow(error) ==
    IF Includes(error.message, "Custom field")
         \/ Includes(error.message, "prepare sheet data")
    THEN "Sheet creation failed due to custom field issues: " \o error.message
    ELSE IF error.code = 403
    THEN "Sheet creation failed: Insufficient permissions to access Google Sheets API. Please check your service account credentials and permissions."
    ELSE IF error.code = 401
    THEN "Sheet creation failed: Authentication failed. Please check your Google service account credentials."
    ELSE IF error.code = 429
    THEN "Sheet creation failed: Google API rate limit exceeded. Please try again later."
    ELSE IF error.code = 400
    THEN "Sheet creation failed: Invalid request to Google Sheets API. "
           \o error.message
    ELSE IF Includes(error.message, "ENOTFOUND")
              \/ Includes(error.message, "network")
    THEN "Sheet creation failed: Network error. Please check your internet connection and try again."
    ELSE IF Includes(error.message, "Event data is required")
              \/ Includes(error.message, "Registrations must be provided")
    THEN "Sheet creation failed: " \o error.message
    ELSE "Sheet creation failed: "
           \o (IF error.message # "" THEN error.message
               ELSE "Unknown error occurred")

\* The link built from the spreadsheet id.
ShareableLink(id) ==
    "https://docs.google.com/spreadsheets/d/" \o id \o "/edit#gid=0"

\* formatRegistrationsSheet calls startsWith on a truthy payment_screenshot_url
\* when the event requires payment: a TypeError before its remote call when
\* that value is not a string.
FormatRegistrationsThrows(eventData, registrations) ==
    /\ Len(registrations.a) > 0
    /\ EventRequiresPayment(eventData)
    /\ \E i \in 1..Len(registrations.a) :
          LET url == registrations.a[i].payment_screenshot_url
          IN  Truthy(url) /\ url # Str("N/A") /\ ~IsString(url)

(***************************************************************************)
(* The cells of a tab: a sequence of rows, each a sequence of the values   *)
(* entered; a blank cell holds "".  Trailing blank cells and rows are not  *)
(* kept.                                                                   *)
(***************************************************************************)
Blank == Str("")

\* 'Registrations!A4:Z': the first row and the last column of the clear.
FirstDataRow == 4

LastClearedColumn == 26

CellAt(g, r, c) ==
    IF r <= Len(g) /\ c <= Len(g[r]) THEN g[r][c] ELSE Blank

RECURSIVE TrimRow(_)
TrimRow(row) ==
    IF row # <<>> /\ row[Len(row)] = Blank
    THEN TrimRow(SubSeq(row, 1, Len(row) - 1))
    ELSE row

RECURSIVE TrimRows(_)
TrimRows(g) ==
    IF g # <<>> /\ g[Len(g)] = <<>>
    THEN TrimRows(SubSeq(g, 1, Len(g) - 1))
    ELSE g

Trim(g) == TrimRows([r \in 1..Len(g) |-> TrimRow(g[r])])

\* Variant: the clear starts one row too low.
ValuesClear_FromRow5(g) ==
    Trim([r \in 1..Len(g) |->
            IF r < FirstDataRow + 1 THEN g[r]
            ELSE [c \in 1..Len(g[r]) |->
                    IF c <= LastClearedColumn THEN Blank ELSE g[r][c]]])

\* spreadsheets.values.clear of 'Registrations!A4:Z' (line 268).
ValuesClear(g) ==
    Trim([r \in 1..Len(g) |->
            IF r < FirstDataRow THEN g[r]
            ELSE [c \in 1..Len(g[r]) |->
                    IF c <= LastClearedColumn THEN Blank ELSE g[r][c]]])

Max(a, b) == IF a >= b THEN a ELSE b

\* spreadsheets.values.update at 'Registrations!A1' (line 281): each value
\* given overwrites its cell; a cell given no value (a short or empty row,
\* null, undefined) keeps what it held.
ValuesUpdate(g, values) ==
    Trim([r \in 1..Max(Len(g), Len(values)) |->
            LET given == IF r <= Len(values) THEN values[r] ELSE <<>>
                held == IF r <= Len(g) THEN g[r] ELSE <<>>
            IN  [c \in 1..Max(Len(given), Len(held)) |->
                    IF c <= Len(given) /\ ~Nullish(given[c])
                    THEN given[c]
                    ELSE CellAt(g, r, c)]])

\* allData (lines 274-279, 965-970): title row, empty row, headers, rows.
AllData(eventData, sheetData) ==
    <<<<Str(JsString(eventData.title) \o " - Event Registrations")>>, <<>>,
      sheetData.headers>> \o sheetData.rows

\* The Registrations tab as populateRegistrationsSheet leaves a new one.
WrittenSheet(eventData, registrations) ==
    ValuesUpdate(<<>>, AllData(eventData, prepareSheetData(eventData, registrations)))

(***************************************************************************)
(* populateDashboardSheet(spreadsheetId, eventData, registrations): the    *)
(* statistics.  An object used as a counter table is a function from its   *)
(* keys to the counts.                                                     *)
(***************************************************************************)
\* counts[key] = (counts[key] || 0) + 1; a property key is the text of the
\* value.
Increment(counts, key) ==
    IF key \in DOMAIN counts
    THEN [counts EXCEPT ![key] = @ + 1]
    ELSE counts @@ (key :> 1)

\* v || 'Unknown', as a property key
KeyOrUnknown(v) == IF Truthy(v) THEN JsString(v) ELSE "Unknown"

NoCounts == [departmentCounts |-> <<>>, yearCounts |-> <<>>, totalTeamMembers |-> 0]

RECURSIVE CountMembers(_, _)
\* The inner forEach over reg.additional_info.team_members (lines 1237-1242).
CountMembers(acc, members) ==
    IF members = <<>> THEN acc
    ELSE CountMembers(
           [acc EXCEPT
              !.departmentCounts = Increment(@, KeyOrUnknown(Head(members).department)),
              !.yearCounts = Increment(@, KeyOrUnknown(Head(members).year))],
           Tail(members))

\* Variant: a team is counted once, under its first member.
CountRegistration_TeamOnce(acc, reg) ==
    LET own == [acc EXCEPT
                  !.departmentCounts =
                      Increment(@, KeyOrUnknown(InfoGet(reg.additional_info, "department"))),
                  !.yearCounts =
                      Increment(@, KeyOrUnknown(InfoGet(reg.additional_info, "year")))]
    IN  IF HasTeamMembers(reg)
        THEN CountMembers(
               [own EXCEPT !.totalTeamMembers =
                              @ + Len(reg.additional_info.team_members.a)],
               <<Head(reg.additional_info.team_members.a)>>)
        ELSE own

\* One turn of the forEach over the registrations (lines 1224-1244).
CountRegistration(acc, reg) ==
    LET own == [acc EXCEPT
                  !.departmentCounts =
                      Increment(@, KeyOrUnknown(InfoGet(reg.additional_info, "department"))),
                  !.yearCounts =
                      Increment(@, KeyOrUnknown(InfoGet(reg.additional_info, "year")))]
    IN  IF HasTeamMembers(reg)
        THEN CountMembers(
               [own EXCEPT !.totalTeamMembers =
                              @ + Len(reg.additional_info.team_members.a)],
               reg.additional_info.team_members.a)
        ELSE own

RECURSIVE CountRegistrations(_, _)
CountRegistrations(acc, regs) ==
    IF regs = <<>> THEN acc
    ELSE CountRegistrations(CountRegistration(acc, Head(regs)), Tail(regs))

\* ((part / whole) * 100).toFixed(1); a division by zero gives NaN or
\* Infinity, which toFixed prints as such.
toFixed1(part, whole) ==
    IF whole = 0
    THEN IF part = 0 THEN "NaN" ELSE "Infinity"
    ELSE LET tenths == (2000 * part + whole) \div (2 * whole)
         IN  ToString(tenths \div 10) \o "." \o ToString(tenths % 10)

\* The Percentage column of a distribution table (lines 1269-1272 and
\* 1280-1283): one cell per key of the counter table.
Percentages(counts, totalParticipants) ==
    [k \in DOMAIN counts |-> toFixed1(counts[k], totalParticipants) \o "%"]

\* Variant: the attendance rate is computed without the guard on the number
\* of registrations.
AttendanceRate_Unguarded(attendedCount, totalRegistrations) ==
    toFixed1(attendedCount, totalRegistrations)

\* Line 1219: the rate, '0.0' when there is no registration.
AttendanceRate(attendedCount, totalRegistrations) ==
    IF totalRegistrations > 0
    THEN toFixed1(attendedCount, totalRegistrations)
    ELSE "0.0"

\* The figures of dashboardData (lines 1211-1283); regs is the array.
DashboardData(eventData, regs) ==
    LET counts == CountRegistrations(NoCounts, regs)
        attended == Cardinality({i \in 1..Len(regs) :
                                   regs[i].attendance_status = Str("attended")})
    IN  [title |-> "Event: " \o JsString(eventData.title),
         totalParticipants |-> Len(regs) + counts.totalTeamMembers,
         totalRegistrations |-> Len(regs),
         totalTeamMembers |-> counts.totalTeamMembers,
         attendedCount |-> attended,
         notAttendedCount |-> Len(regs) - attended,
         attendanceRate |-> AttendanceRate(attended, Len(regs)) \o "%",
         departmentCounts |-> counts.departmentCounts,
         departmentPercentages |->
             Percentages(counts.departmentCounts, Len(regs) + counts.totalTeamMembers),
         yearCounts |-> counts.yearCounts,
         yearPercentages |->
             Percentages(counts.yearCounts, Len(regs) + counts.totalTeamMembers)]

(***************************************************************************)
(* The Team Members tab: populateTeamMembersSheet builds its rows,         *)
(* formatTeamMembersSheet the formats of its rows.                         *)
(***************************************************************************)
\* new Date().toLocaleString('en-IN') at the time of the call.
Now == "4/11/2026, 7:00:00 pm"

NA == Str("N/A")

\* Lines 1119-1125: the title, event and date rows, an empty row, the headers.
TeamSheetTop(eventData) ==
    << <<Str("TEAM MEMBERS DETAILS")>>,
       <<Str("Event: " \o JsString(eventData.title))>>,
       <<Str("Generated: " \o Now)>>,
       <<>>,
       <<Str("Team #"), Str("Team Name"), Str("Role"), Str("Member Name"),
         Str("Scholar ID"), Str("Department"), Str("Year")>> >>

\* Lines 1168 and 1183: the separator row.
SeparatorRow == [c \in 1..7 |-> Str("")]

\* Line 1136
TeamName(reg) ==
    Or(reg.additional_info.team_name, Str("Team " \o JsString(reg.participant_name)))

\* Lines 1139-1147 and 1174-1182: the row of a team lead or of an individual.
ParticipantRow(reg, teamNumber, teamName, role) ==
    <<Num(teamNumber), teamName, Str(role), reg.participant_name,
      Or(Or(reg.participant_id, reg.participant_student_id), NA),
      Or(Or(InfoGet(reg.additional_info, "department"), reg.participant_department), NA),
      Or(Or(InfoGet(reg.additional_info, "year"), reg.participant_year), NA)>>

\* Lines 1150-1160: the row of one team member.
MemberRow(member, teamNumber, teamName) ==
    <<Num(teamNumber), teamName, Str("Member"), Or(member.name, NA),
      Or(Or(member.rollNumber, member.scholar_id), NA),
      Or(member.department, NA), Or(member.year, NA)>>

\* Line 1171: individuals are listed for events of participation_type 'both'.
ListsIndividuals(eventData) ==
    supportsTeamRegistration(eventData) /\ eventData.participation_type = Str("both")

RECURSIVE TeamRows(_, _, _)
\* The forEach of populateTeamMembersSheet (lines 1131-1184) from the
\* registration at the head of regs on.
TeamRows(eventData, regs, teamNumber) ==
    IF regs = <<>> THEN <<>>
    ELSE LET reg == Head(regs)
         IN  IF HasTeamMembers(reg)
             THEN LET members == reg.additional_info.team_members.a
                  IN  <<ParticipantRow(reg, teamNumber, TeamName(reg), "Team Lead")>>
                        \o [j \in 1..Len(members) |->
                               MemberRow(members[j], teamNumber, TeamName(reg))]
                        \o <<SeparatorRow>>
                        \o TeamRows(eventData, Tail(regs), teamNumber + 1)
             ELSE IF ListsIndividuals(eventData)
             THEN <<ParticipantRow(reg, teamNumber,
                                   Str("Individual - " \o JsString(reg.participant_name)),
                                   "Individual"),
                    SeparatorRow>>
                    \o TeamRows(eventData, Tail(regs), teamNumber + 1)
             ELSE TeamRows(eventData, Tail(regs), teamNumber)

\* teamData (lines 1119-1184); regs is the array.
TeamData(eventData, regs) == TeamSheetTop(eventData) \o TeamRows(eventData, regs, 1)

\* A repeatCell request over columns A..G of one row.
RowFormat(startRowIndex, style) ==
    [startRowIndex |-> startRowIndex, endRowIndex |-> startRowIndex + 1,
     style |-> style]

RECURSIVE TeamRowFormats_SeparatorNotSkipped(_, _, _)
\* Variant: the row after a team is taken for the next team's first row.
TeamRowFormats_SeparatorNotSkipped(eventData, regs, currentRowIndex) ==
    IF regs = <<>> THEN <<>>
    ELSE LET reg == Head(regs)
         IN  IF HasTeamMembers(reg)
             THEN LET members == reg.additional_info.team_members.a
                  IN  <<RowFormat(currentRowIndex, "team lead")>>
                        \o [j \in 1..Len(members) |->
                               RowFormat(currentRowIndex + j,
                                         IF (j - 1) % 2 = 0 THEN "even member"
                                         ELSE "odd member")]
                        \o TeamRowFormats_SeparatorNotSkipped(
                               eventData, Tail(regs), currentRowIndex + Len(members) + 1)
             ELSE IF ListsIndividuals(eventData)
             THEN <<RowFormat(currentRowIndex, "individual")>>
                    \o TeamRowFormats_SeparatorNotSkipped(eventData, Tail(regs),
                                                          currentRowIndex + 2)
             ELSE TeamRowFormats_SeparatorNotSkipped(eventData, Tail(regs),
                                                     currentRowIndex)

RECURSIVE TeamRowFormats(_, _, _)
\* The forEach of formatTeamMembersSheet (lines 1678-1793) from the
\* registration at the head of regs on.
TeamRowFormats(eventData, regs, currentRowIndex) ==
    IF regs = <<>> THEN <<>>
    ELSE LET reg == Head(regs)
         IN  IF HasTeamMembers(reg)
             THEN LET members == reg.additional_info.team_members.a
                  IN  <<RowFormat(currentRowIndex, "team lead")>>
                        \o [j \in 1..Len(members) |->
                               RowFormat(currentRowIndex + j,
                                         IF (j - 1) % 2 = 0 THEN "even member"
                                         ELSE "odd member")]
                        \o TeamRowFormats(eventData, Tail(regs),
                                          currentRowIndex + Len(members) + 2)
             ELSE IF ListsIndividuals(eventData)
             THEN <<RowFormat(currentRowIndex, "individual")>>
                    \o TeamRowFormats(eventData, Tail(regs), currentRowIndex + 2)
             ELSE TeamRowFormats(eventData, Tail(regs), currentRowIndex)

\* The row formats among the requests of formatTeamMembersSheet (lines
\* 1503-1793): the title row, the header row, then the data rows from row
\* index 5 on.
TeamFormatRequests(eventData, regs) ==
    <<RowFormat(0, "title"), RowFormat(4, "header")>>
      \o TeamRowFormats(eventData, regs, 5)

\* The Team Members tab: the cells it holds and the row formats applied.
TeamTab(values, rowFormats) == [values |-> values, rowFormats |-> rowFormats]

NoTeamTab == TeamTab(<<>>, <<>>)

\* The write of populateTeamMembersSheet at 'Team Members!A1' (line 1186).
WriteTeamData(tab, eventData, registrations) ==
    [tab EXCEPT !.values = ValuesUpdate(@, TeamData(eventData, registrations.a))]

\* The batchUpdate of formatTeamMembersSheet (line 1795).
ApplyTeamFormats(tab, eventData, registrations) ==
    [tab EXCEPT !.rowFormats = TeamFormatRequests(eventData, registrations.a)]

(***************************************************************************)
(* Sample inputs.                                                          *)
(***************************************************************************)
SizeField == FieldDef("object", Str("f1"), Str("T-Shirt Size"))

TopicsField == FieldDef("object", Str("f2"), Str("Topics"))

NullField == FieldDef("null", Undef, Undef)

TextField == FieldDef("string", Undef, Undef)

NoLabelField == FieldDef("object", Str("f3"), Undef)

NoIdField == FieldDef("object", Undef, Str("Orphan"))

NumberLabelField == FieldDef("object", Str("f3"), Num(7))

FieldSamples ==
    {SizeField, TopicsField, NullField, TextField, NoLabelField, NoIdField,
     NumberLabelField}

BaseEvent == [NoEvent("object") EXCEPT !.title = Str("Tech Fest")]

\* The payment settings of an event: none, requires_payment with an amount,
\* payment_required without one.
PaymentVariants(e) ==
    { e,
      [e EXCEPT !.requires_payment = True, !.payment_amount = Num(500)],
      [e EXCEPT !.payment_required = True] }

\* All sequences over S of length at most n.
SeqsUpTo(S, n) == UNION {[1..k -> S] : k \in 0..n}

FieldLists ==
    {FieldList("array", a) : a \in SeqsUpTo(FieldSamples, MaxFields)}
      \cup {FieldList("undefined", <<>>), FieldList("null", <<>>),
            FieldList("string", <<>>), FieldList("object", <<>>)}

\* Field lists met by every list of registrations.
CommonFieldLists ==
    { FieldList("undefined", <<>>),
      FieldList("array", <<SizeField, TopicsField>>),
      FieldList("array", <<TopicsField, NoLabelField, SizeField>>) }

EventsWith(lists) ==
    UNION {PaymentVariants([BaseEvent EXCEPT !.custom_fields = fl]) : fl \in lists}

MinimalReg ==
    [NoReg("object") EXCEPT !.participant_name = Str("Asha"),
                            !.participant_email = Str("asha@example.com")]

FullReg ==
    [NoReg("object") EXCEPT
        !.participant_name = Str("Ravi"),
        !.participant_email = Str("ravi@example.com"),
        !.participant_phone = Str("9876543210"),
        !.participant_student_id = Str("S-17"),
        !.participant_department = Str("CSE"),
        !.participant_year = Num(2),
        !.registration_type = Str("Team"),
        !.status = Str("registered"),
        !.attendance_status = Str("attended"),
        !.attendance_timestamp = Str("2024-01-20T04:30:00Z"),
        !.created_at = Str("2024-01-15T10:00:00Z"),
        !.payment_status = Str("verified"),
        !.payment_amount = Num(250),
        !.payment_screenshot_url = Str("https://img.example.com/p.png"),
        !.additional_info =
            [NoInfo("object") EXCEPT
                !.department = Str("ECE"), !.year = Str("3"),
                !.team_name = Str("Coders"),
                !.custom_fields =
                    Values([i \in FieldIds |->
                             CASE i = "f1" -> Str("M")
                               [] i = "f2" -> Arr(<<Str("AI"), Str("ML")>>)
                               [] OTHER -> Undef]),
                !.team_members =
                    Members(<<Member(Str("Mina"), Str("ECE"), Undef)>>)]]

PendingReg ==
    [NoReg("object") EXCEPT
        !.participant_name = Str("Kiran"),
        !.participant_email = Str("kiran@example.com"),
        !.participant_id = Str("P-9"),
        !.status = Str("waitlisted"),
        !.created_at = Str("yesterday"),
        !.payment_status = Str("pending"),
        !.additional_info =
            [NoInfo("object") EXCEPT
                !.department = Str("ME"),
                !.custom_fields =
                    Values([i \in FieldIds |->
                             CASE i = "f1" -> Str("")
                               [] i = "f2" -> Arr(<<>>)
                               [] OTHER -> Undef])]]

OddReg ==
    [NoReg("object") EXCEPT
        !.participant_name = Str("Noor"),
        !.participant_email = Str("noor@example.com"),
        !.payment_amount = Num(0),
        !.additional_info =
            [NoInfo("object") EXCEPT
                !.custom_fields =
                    Values([i \in FieldIds |->
                             CASE i = "f1" -> Num(0)
                               [] i = "f2" -> Null
                               [] OTHER -> False])]]

NoNameReg ==
    [NoReg("object") EXCEPT !.participant_email = Str("ghost@example.com")]

RegSamples ==
    {MinimalReg, FullReg, PendingReg, OddReg, NoNameReg,
     NoReg("null"), NoReg("undefined"), NoReg("string")}

RegLists ==
    {RegList("array", a) : a \in SeqsUpTo(RegSamples, MaxRegs)}
      \cup {RegList("null", <<>>), RegList("object", <<>>)}

\* Registration lists met by every list of custom fields.
CommonRegLists ==
    { RegList("array", <<>>),
      RegList("array", <<MinimalReg>>),
      RegList("array", <<FullReg, MinimalReg>>),
      RegList("array", <<NoNameReg, PendingReg>>) }

\* The inputs of the builder: every field list with the common registration
\* lists, and every registration list with the common field lists.
PrepareInputs ==
    ((EventsWith(FieldLists) \cup {NoEvent("null"), NoEvent("undefined")})
        \X CommonRegLists)
      \cup (EventsWith(CommonFieldLists) \X RegLists)

\* A registration whose payment proof is not a text.
BadProofReg ==
    [NoReg("object") EXCEPT !.participant_name = Str("Dev"),
                            !.participant_email = Str("dev@example.com"),
                            !.payment_screenshot_url = Num(7)]

PaidEvent ==
    [BaseEvent EXCEPT !.requires_payment = True, !.payment_amount = Num(500)]

\* The events handed to createEventSheet.
CreateEvents ==
    { NoEvent("null"), NoEvent("undefined"), NoEvent("object"),
      BaseEvent, PaidEvent,
      [BaseEvent EXCEPT !.participation_type = Str("team")],
      [PaidEvent EXCEPT !.participation_type = Str("both"),
                        !.custom_fields = FieldList("array", <<SizeField>>)],
      [BaseEvent EXCEPT !.custom_fields = FieldList("string", <<>>)] }
      \cup {[BaseEvent EXCEPT !.custom_fields = FieldList("array", <<SizeField, f>>)] :
              f \in FieldSamples}

\* A registration of a team of three: the lead and two members.
TeamReg ==
    [NoReg("object") EXCEPT
        !.participant_name = Str("Lena"),
        !.participant_email = Str("lena@example.com"),
        !.registration_type = Str("Team"),
        !.additional_info =
            [NoInfo("object") EXCEPT
                !.department = Str("CSE"),
                !.year = Num(3),
                !.team_name = Str("Byte Me"),
                !.team_members =
                    Members(<<Member(Str("Omar"), Undef, Str("3")),
                              Member(Str("Pia"), Str("ECE"), Str(""))>>)]]

\* The registrations handed to createEventSheet.
CreateRegLists ==
    { RegList("null", <<>>),
      RegList("array", <<>>),
      RegList("array", <<MinimalReg>>),
      RegList("array", <<FullReg, MinimalReg>>),
      RegList("array", <<NoNameReg, BadProofReg>>),
      RegList("array", <<MinimalReg, NoReg("null")>>),
      RegList("array", <<TeamReg, FullReg>>),
      RegList("array", <<MinimalReg, TeamReg>>) }

\* The registrations handed to populateDashboardSheet.
DashboardRegLists ==
    {a \in SeqsUpTo({MinimalReg, FullReg, PendingReg, TeamReg, NoReg("string")},
                    MaxRegs) : TRUE}

\* The events handed to updateEventSheet.
UpdateEvents ==
    { BaseEvent, NoEvent("null"),
      [BaseEvent EXCEPT !.title = Str("Tech Fest 2025")],
      [PaidEvent EXCEPT !.custom_fields = FieldList("array", <<SizeField>>)] }

\* The registrations handed to updateEventSheet.
UpdateRegLists ==
    { RegList("null", <<>>),
      RegList("array", <<>>),
      RegList("array", <<MinimalReg>>),
      RegList("array", <<TeamReg>>),
      RegList("array", <<FullReg, MinimalReg>>),
      RegList("array", <<MinimalReg, NoReg("null")>>) }

\* The inputs of two updates of one spreadsheet.
ConcurrentInputs ==
    { <<BaseEvent, RegList("array", <<MinimalReg>>)>>,
      <<BaseEvent, RegList("array", <<FullReg, MinimalReg>>)>>,
      <<[BaseEvent EXCEPT !.title = Str("Tech Fest 2025")],
        RegList("array", <<TeamReg, PendingReg>>)>> }

\* What the spreadsheet was last written from: the Registrations tab holds
\* the cells of that call.
EarlierInputs ==
    { <<BaseEvent, RegList("array", <<MinimalReg>>)>>,
      <<[PaidEvent EXCEPT !.custom_fields = FieldList("array", <<SizeField>>)],
        RegList("array", <<FullReg, PendingReg>>)>>,
      <<[BaseEvent EXCEPT !.participation_type = Str("both")],
        RegList("array", <<TeamReg, FullReg>>)>> }

\* The tabs of an existing spreadsheet; the last one has lost its Dashboard.
ExistingTabs ==
    { <<Tab("Registrations", 0), Tab("Dashboard", 942)>>,
      <<Tab("Registrations", 0), Tab("Team Members", 1837), Tab("Dashboard", 942)>>,
      <<Tab("Registrations", 77), Tab("Team Members", 5)>> }

\* The events of the request bodies.
StoredEvent == [BaseEvent EXCEPT !.id = Str("evt-1")]

BodyEvents ==
    { StoredEvent,
      BaseEvent,
      [StoredEvent EXCEPT !.title = Undef],
      NoEvent("undefined"),
      [StoredEvent EXCEPT !.id = Num(42), !.participation_type = Str("team")],
      [StoredEvent EXCEPT
          !.custom_fields =
              FieldList("array", <<[SizeField EXCEPT !.type = Str("select")]>>),
          !.requires_payment = True, !.payment_amount = Num(500)],
      [StoredEvent EXCEPT !.custom_fields = FieldList("array", <<SizeField, NoIdField>>)] }

\* A registration whose email is no address.
BadEmailReg ==
    [MinimalReg EXCEPT !.participant_email = Str("asha.example.com")]

\* The registrations of the request bodies.
BodyRegLists ==
    { RegList("undefined", <<>>),
      RegList("array", <<>>),
      RegList("array", <<MinimalReg>>),
      RegList("array", <<TeamReg, PendingReg>>),
      RegList("array", <<MinimalReg, NoNameReg>>),
      RegList("array", <<BadEmailReg>>),
      RegList("array", <<NoReg("null"), BadProofReg>>) }

Routes == {"POST /create", "PUT /:spreadsheetId/update"}

\* The routes that take no body.
IdRoutes == {"GET /:spreadsheetId", "DELETE /:spreadsheetId"}

\* The ids the remote service gives a new spreadsheet.
SheetIds == {"1AbC", "1xYz"}

\* The sheet ids the remote service gives the tabs of a new spreadsheet.
TabIds == {<<0, 1837, 942>>, <<77, 5, 310>>}

\* The errors of a failed remote call.
RemoteErrors ==
    { Error("The caller does not have permission", 403),
      Error("Request had invalid authentication credentials", 401),
      Error("Quota exceeded for quota metric", 429),
      Error("Invalid requests[0]", 400),
      Error("getaddrinfo ENOTFOUND sheets.googleapis.com", 0),
      Error("Internal error encountered", 500),
      Error("Requested entity was not found.", 404),
      Error("Request had insufficient authentication scopes.", 403) }

(***************************************************************************)
(* formatSheet(spreadsheetId, sheetId, columnCount, rowCount): the grid    *)
(* ranges of its repeatCell and mergeCells requests, in the order built.   *)
(* Its other requests (frozen rows, column widths) carry no grid range.    *)
(***************************************************************************)
GridRange(startRowIndex, endRowIndex, startColumnIndex, endColumnIndex) ==
    [startRowIndex |-> startRowIndex, endRowIndex |-> endRowIndex,
     startColumnIndex |-> startColumnIndex, endColumnIndex |-> endColumnIndex]

\* Line 915
centerAlignColumns == <<0, 4, 6, 7, 8, 9>>

FormatSheetRanges(columnCount, rowCount) ==
    LET dataRowCount == rowCount - 3
        centered == SelectSeq(centerAlignColumns, LAMBDA colIndex : colIndex < columnCount)
    IN  \* title row, header row, data rows (lines 764-850)
        <<GridRange(0, 1, 0, columnCount),
          GridRange(2, 3, 0, columnCount),
          GridRange(3, rowCount, 0, columnCount)>>
          \* alternating row colours (lines 852-877)
          \o [i \in 1..dataRowCount |-> GridRange(i + 2, i + 3, 0, columnCount)]
          \* centred columns (lines 915-937)
          \o [k \in 1..Len(centered) |->
                 GridRange(3, rowCount, centered[k], centered[k] + 1)]
          \* merged title row (lines 940-951)
          \o <<GridRange(0, 1, 0, columnCount)>>

(***************************************************************************)
(* updateEventSheet(spreadsheetId, eventData, registrations): one record   *)
(* per invocation.                                                         *)
(***************************************************************************)
Invocations == {1, 2}

Invocation(pc, eventData, registrations) ==
    [pc |-> pc, eventData |-> eventData, registrations |-> registrations,
     calls |-> <<>>, failed |-> {}, status |-> "pending", message |-> "",
     requests |-> <<>>]

NoInvocation == Invocation("absent", NoEvent("undefined"), RegList("undefined", <<>>))

\* What updateEventSheet throws before its first remote call (lines 262 and
\* 265), "" when nothing.
UpdateStartMessage(eventData, registrations) ==
    IF Nullish(registrations)
    THEN "Cannot read properties of " \o registrations.t \o " (reading 'length')"
    ELSE IF prepareSheetData(eventData, registrations).thrown
    THEN prepareSheetData(eventData, registrations).message
    ELSE ""

\* Go on to the next remote call, or return (lines 335-341).
Proceed(inv, step) ==
    IF step = "returned"
    THEN [inv EXCEPT !.pc = "returned", !.status = "success",
                     !.message = "Google Sheet updated successfully"]
    ELSE [inv EXCEPT !.pc = step, !.calls = Append(@, step)]

\* The log line of a failed service method: the error caught, with its
\* code and message (lines 346, 1890, 1909).
FailedCall(method, error) ==
    method \o " " \o ToString(error.code) \o " " \o error.message

\* The catch block of updateEventSheet (lines 345-348).
UpdateRethrow(inv, error) ==
    [inv EXCEPT !.pc = "thrown", !.status = "thrown",
                !.message = "Failed to update Google Sheet: " \o error.message,
                !.failed = @ \cup {FailedCall("updateEventSheet", error)}]

\* A failure caught and logged inside updateEventSheet.
Logged(inv, step, ok) ==
    IF ok THEN inv ELSE [inv EXCEPT !.failed = @ \cup {step}]

(***************************************************************************)
(* routes/sheets.js: the schemas and the status codes.  A violation is     *)
(* kept as its path.                                                       *)
(***************************************************************************)
\* Joi.string(): a text that is not empty.
JoiString(v) == v.t = "string" /\ v.s # ""

\* Joi.string().optional().allow('', null)
JoiOptionalString(v) == v.t \in {"undefined", "null", "string"}

\* Joi.alternatives().try(Joi.string(), Joi.number() or Joi.date())
\*    .optional().allow('', null)
JoiOptionalStringOrNumber(v) == v.t \in {"undefined", "null", "string", "number"}

\* Joi.boolean().optional()
JoiOptionalBoolean(v) == v.t \in {"undefined", "true", "false"}

\* Joi.string().email(): one '@' with a name before it and, after it, a
\* domain of at least two parts.
JoiEmail(v) ==
    /\ JoiString(v)
    /\ \E i \in 2..(Len(v.s) - 3) :
          /\ SubSeq(v.s, i, i) = "@"
          /\ \A j \in 1..Len(v.s) : SubSeq(v.s, j, j) = "@" => j = i
          /\ \E k \in (i + 2)..(Len(v.s) - 1) : SubSeq(v.s, k, k) = "."

Failing(check) == ~check[2]

\* The paths of the checks that fail, in schema order; a check is
\* <<path, passes>>.
Violations(checks) ==
    LET bad == SelectSeq(checks, Failing)
    IN  [i \in 1..Len(bad) |-> bad[i][1]]

RECURSIVE Flatten(_)
Flatten(lists) ==
    IF lists = <<>> THEN <<>> ELSE Head(lists) \o Flatten(Tail(lists))

\* One item of eventData.custom_fields (lines 13-17).
FieldViolations(field, path) ==
    IF field.t # "object" THEN <<path>>
    ELSE Violations(<< <<path \o ".id", JoiString(field.id)>>,
                       <<path \o ".label", JoiString(field.label)>>,
                       <<path \o ".type", JoiString(field.type)>> >>)

\* eventData (lines 9-22); unknown keys are allowed.
EventViolations(e) ==
    IF e.t # "object" THEN <<"eventData">>
    ELSE Violations(<< <<"eventData.id", JoiString(e.id) \/ e.id.t = "number">>,
                       <<"eventData.title", JoiString(e.title)>> >>)
           \o (IF e.custom_fields.t = "undefined" THEN <<>>
               ELSE IF e.custom_fields.t # "array" THEN <<"eventData.custom_fields">>
               ELSE Flatten([i \in 1..Len(e.custom_fields.a) |->
                               FieldViolations(e.custom_fields.a[i],
                                   "eventData.custom_fields." \o ToString(i - 1))]))
           \o Violations(
                  << <<"eventData.requires_payment", JoiOptionalBoolean(e.requires_payment)>>,
                     <<"eventData.payment_required", JoiOptionalBoolean(e.payment_required)>>,
                     <<"eventData.payment_amount",
                       JoiOptionalStringOrNumber(e.payment_amount)>> >>)

\* One item of registrations (lines 23-55).
RegistrationViolations(reg, path) ==
    IF reg.t # "object" THEN <<path>>
    ELSE Violations(
           << <<path \o ".participant_name", JoiString(reg.participant_name)>>,
              <<path \o ".participant_email", JoiEmail(reg.participant_email)>>,
              <<path \o ".participant_id", JoiOptionalString(reg.participant_id)>>,
              <<path \o ".participant_phone", JoiOptionalString(reg.participant_phone)>>,
              <<path \o ".participant_student_id",
                JoiOptionalString(reg.participant_student_id)>>,
              <<path \o ".participant_department",
                JoiOptionalString(reg.participant_department)>>,
              <<path \o ".participant_year",
                JoiOptionalStringOrNumber(reg.participant_year)>>,
              <<path \o ".registration_type",
                reg.registration_type.t = "undefined" \/ JoiString(reg.registration_type)>>,
              <<path \o ".status", reg.status.t = "undefined" \/ JoiString(reg.status)>>,
              <<path \o ".created_at", JoiOptionalStringOrNumber(reg.created_at)>>,
              <<path \o ".additional_info",
                reg.additional_info.t \in {"undefined", "null", "object"}>>,
              <<path \o ".payment_status", JoiOptionalString(reg.payment_status)>>,
              <<path \o ".payment_amount", JoiOptionalStringOrNumber(reg.payment_amount)>>,
              <<path \o ".payment_screenshot_url",
                JoiOptionalString(reg.payment_screenshot_url)>>,
              <<path \o ".attendance_status", JoiOptionalString(reg.attendance_status)>>,
              <<path \o ".attendance_timestamp",
                JoiOptionalStringOrNumber(reg.attendance_timestamp)>> >>)

\* A request body: {eventData, registrations}.
Body(e, r) == [eventData |-> e, registrations |-> r]

NoBody == Body(NoEvent("undefined"), RegList("undefined", <<>>))

\* schema.validate(body, {abortEarly: false}).error.details: every
\* violation of createSheetSchema or updateSheetSchema.
SchemaViolations(body) ==
    EventViolations(body.eventData)
      \o (IF body.registrations.t # "array" THEN <<"registrations">>
          ELSE Flatten([i \in 1..Len(body.registrations.a) |->
                          RegistrationViolations(body.registrations.a[i],
                              "registrations." \o ToString(i - 1))]))

\* schema.validate(body).value: the body with the defaults filled in.
SchemaValue(body) ==
    Body([body.eventData EXCEPT
             !.custom_fields = IF @.t = "undefined" THEN FieldList("array", <<>>) ELSE @],
         [body.registrations EXCEPT
             !.a = [i \in 1..Len(@) |->
                      [@[i] EXCEPT
                          !.registration_type =
                              IF @.t = "undefined" THEN Str("Individual") ELSE @,
                          !.status =
                              IF @.t = "undefined" THEN Str("Confirmed") ELSE @]]])

Request(route, body) == [route |-> route, body |-> body]

\* res.status(status).json({success, error, message, details})
Response(status, success, error, message, details) ==
    [status |-> status, success |-> success, error |-> error,
     message |-> message, details |-> details]

NoResponse == Response(0, FALSE, "", "", <<>>)

\* Variant: only validation failures are told apart.
CreateErrorResponse_Unclassified(message) ==
    IF Includes(message, "Event data is required")
         \/ Includes(message, "Registrations must be provided")
         \/ Includes(message, "Custom field")
         \/ Includes(message, "validation error")
    THEN Response(400, FALSE, "Validation error", message, <<>>)
    ELSE Response(500, FALSE, "Internal server error", message, <<>>)

\* The catch block of router.post('/create') (lines 165-202).
CreateErrorResponse(message) ==
    IF Includes(message, "Event data is required")
         \/ Includes(message, "Registrations must be provided")
         \/ Includes(message, "Custom field")
         \/ Includes(message, "validation error")
    THEN Response(400, FALSE, "Validation error", message, <<>>)
    ELSE IF Includes(message, "Authentication failed")
              \/ Includes(message, "Insufficient permissions")
    THEN Response(401, FALSE, "Authentication error", message, <<>>)
    ELSE IF Includes(message, "rate limit")
    THEN Response(429, FALSE, "Rate limit exceeded", message, <<>>)
    ELSE IF Includes(message, "network") \/ Includes(message, "ENOTFOUND")
    THEN Response(503, FALSE, "Service unavailable", message, <<>>)
    ELSE Response(500, FALSE, "Internal server error", message, <<>>)

\* The catch block of router.put('/:spreadsheetId/update') (lines 245-270);
\* the error the service rethrows carries no code.
UpdateErrorResponse(message) ==
    IF Includes(message, "not found")
    THEN Response(404, FALSE, "Sheet not found",
                  "The specified Google Sheet could not be found", <<>>)
    ELSE IF Includes(message, "permission")
    THEN Response(403, FALSE, "Permission denied",
                  "Insufficient permissions to update the Google Sheet", <<>>)
    ELSE Response(500, FALSE, "Internal server error", message, <<>>)

\* The catch block of router.get('/:spreadsheetId') (lines 301-326).
GetErrorResponse(message) ==
    IF Includes(message, "not found")
    THEN Response(404, FALSE, "Sheet not found",
                  "The specified Google Sheet could not be found", <<>>)
    ELSE IF Includes(message, "permission")
    THEN Response(403, FALSE, "Permission denied",
                  "Insufficient permissions to access the Google Sheet", <<>>)
    ELSE Response(500, FALSE, "Internal server error", message, <<>>)

\* The catch block of router.delete('/:spreadsheetId') (lines 352-376).
DeleteErrorResponse(message) ==
    IF Includes(message, "not found")
    THEN Response(404, FALSE, "Sheet not found",
                  "The specified Google Sheet could not be found", <<>>)
    ELSE IF Includes(message, "permission")
    THEN Response(403, FALSE, "Permission denied",
                  "Insufficient permissions to delete the Google Sheet", <<>>)
    ELSE Response(500, FALSE, "Internal server error", message, <<>>)

(***************************************************************************)
(* State.                                                                  *)
(***************************************************************************)
VARIABLES
    eventData,       \* the event of the current call
    registrations,   \* its registrations
    isAutoCreate,    \* createEventSheet's third parameter
    pc,              \* where the current call stands: the remote call awaited
    sheetData,       \* what prepareSheetData returned (or threw)
    repeatData,      \* what a second call with the same inputs returned
    calls,           \* the remote calls issued so far, in order
    failed,          \* the steps of the current call that failed
    spreadsheetId,   \* the id the create call returned ("" before it)
    outcome,         \* what createEventSheet returned or threw
    tabs,            \* the tabs of the remote spreadsheet: title and sheet id
    formatted,       \* the formatting requests issued: layout and sheet id
    grid,            \* the cells of the remote Registrations tab
    dashboard,       \* the remote Dashboard tab: <<>> or <<its figures>>
    upd,             \* the updateEventSheet invocations, by number
    before,          \* the cells of the Registrations tab before the update
    request,         \* the HTTP request being served: route and body
    response,        \* the HTTP response sent
    invoked,         \* the service methods the route handler has called
    teamTab          \* the Team Members tab: its cells and row formats

inputVars == <<eventData, registrations, isAutoCreate>>

builderVars == <<sheetData, repeatData>>

remoteVars == <<calls, failed, spreadsheetId, outcome>>

tabVars == <<tabs, formatted, teamTab>>

routeVars == <<request, response, invoked>>

laterVars == <<grid, dashboard, upd, before, routeVars>>

\* What updateEventSheet never writes.
updateVars ==
    <<inputVars, pc, builderVars, remoteVars, tabs, formatted, before, routeVars>>

createVars == <<updateVars, teamTab>>

vars == <<eventData, registrations, isAutoCreate, pc, sheetData, repeatData,
          calls, failed, spreadsheetId, outcome, tabs, formatted, grid,
          dashboard, upd, before, request, response, invoked, teamTab>>

\* The service called directly, not through a route.
NoRequest ==
    /\ request = Request("none", NoBody)
    /\ response = NoResponse
    /\ invoked = {}

\* The state of the parts a call does not use.
LaterIdle ==
    /\ grid = <<>>
    /\ dashboard = <<>>
    /\ upd = [u \in Invocations |-> NoInvocation]
    /\ before = <<>>
    /\ NoRequest

NoResult == [thrown |-> FALSE, message |-> "none", headers |-> <<>>, rows |-> <<>>]

Pending ==
    [status |-> "pending", message |-> "", spreadsheetId |-> "",
     shareableLink |-> "", title |-> "", rowCount |-> 0]

(***************************************************************************)
(* The builder called on its own, twice in a row on the same inputs.       *)
(***************************************************************************)
InitPrepare ==
    /\ \E input \in PrepareInputs :
          /\ eventData = input[1]
          /\ registrations = input[2]
    /\ isAutoCreate = FALSE
    /\ pc = "prepare"
    /\ sheetData = NoResult
    /\ repeatData = NoResult
    /\ calls = <<>>
    /\ failed = {}
    /\ spreadsheetId = ""
    /\ outcome = Pending
    /\ tabs = <<>>
    /\ formatted = {}
    /\ teamTab = NoTeamTab
    /\ LaterIdle

\* Variant: the call strips the entries it could not process from the
\* caller's list.
PrepareCall_DropsBadEntries ==
    /\ pc = "prepare"
    /\ sheetData' = prepareSheetData(eventData, registrations)
    /\ pc' = "prepared"
    /\ registrations' =
          [registrations EXCEPT !.a = SelectSeq(registrations.a, IsObjectEntry)]
    /\ UNCHANGED <<laterVars, tabVars, eventData, isAutoCreate, repeatData, remoteVars>>

PrepareCall ==
    /\ pc = "prepare"
    /\ sheetData' = prepareSheetData(eventData, registrations)
    /\ pc' = "prepared"
    /\ UNCHANGED <<laterVars, tabVars, inputVars, repeatData, remoteVars>>

PrepareAgain ==
    /\ pc = "prepared"
    /\ repeatData' = prepareSheetData(eventData, registrations)
    /\ pc' = "repeated"
    /\ UNCHANGED <<laterVars, tabVars, inputVars, sheetData, remoteVars>>

NextPrepare == PrepareCall \/ PrepareAgain

SpecPrepare == InitPrepare /\ [][NextPrepare]_vars

(***************************************************************************)
(* createEventSheet.  Each action is the return of the remote call awaited *)
(* (it succeeds or fails) followed by the code up to the next remote call. *)
(***************************************************************************)
Init ==
    /\ eventData \in CreateEvents
    /\ registrations \in CreateRegLists
    /\ isAutoCreate \in BOOLEAN
    /\ pc = "start"
    /\ sheetData = NoResult
    /\ repeatData = NoResult
    /\ calls = <<>>
    /\ failed = {}
    /\ spreadsheetId = ""
    /\ outcome = Pending
    /\ tabs = <<>>
    /\ formatted = {}
    /\ teamTab = NoTeamTab
    /\ LaterIdle

\* The sheet a formatting call is aimed at: the layout it applies and the
\* sheet id it is handed (lines 172, 180, 188, 197).
FormatRequest(call) ==
    CASE call \in {"batchUpdate Registrations",
                   "batchUpdate Registrations fallback"} ->
            {Tab("Registrations", registrationsSheetId(tabs))}
      [] call = "batchUpdate Team Members" ->
            {Tab("Team Members",
                 teamMembersSheetId(eventData, registrations, tabs))}
      [] call = "batchUpdate Dashboard" ->
            {Tab("Dashboard", dashboardSheetId(eventData, registrations, tabs))}
      [] OTHER -> {}

\* Issue a remote call and await it.
Await(call) ==
    /\ pc' = call
    /\ calls' = Append(calls, call)
    /\ formatted' = formatted \cup FormatRequest(call)

Throw(error) ==
    /\ pc' = "thrown"
    /\ outcome' = [Pending EXCEPT !.status = "thrown",
                                  !.message = CreateRethrow(error)]
    /\ UNCHANGED formatted

\* Lines 21-125: the checks, the dry run, then spreadsheets.create.
CreateEventSheetStart ==
    /\ pc = "start"
    /\ LET message == ValidationMessage(eventData, registrations, isAutoCreate)
       IN  IF message # ""
           THEN /\ Throw(Error(message, 0))
                /\ UNCHANGED <<calls, sheetData>>
           ELSE /\ sheetData' = prepareSheetData(eventData, registrations)
                /\ Await("spreadsheets.create")
                /\ UNCHANGED outcome
    /\ UNCHANGED <<laterVars, inputVars, repeatData, failed, spreadsheetId, tabs, teamTab>>

\* The log line of a failed create call: its code and message (line 226).
FailedCreate(error) ==
    "spreadsheets.create " \o ToString(error.code) \o " " \o error.message

\* Lines 116-149: the create call returns; on success the ids are read and
\* populateRegistrationsSheet writes the grid.
SpreadsheetCreateReturns ==
    /\ pc = "spreadsheets.create"
    /\ \/ \E error \in RemoteErrors :
             /\ Throw(error)
             /\ failed' = failed \cup {FailedCreate(error)}
             /\ UNCHANGED <<calls, spreadsheetId, tabs>>
       \/ \E id \in SheetIds, ids \in TabIds :
             /\ spreadsheetId' = id
             /\ tabs' = CreatedTabs(SheetTitles(eventData, registrations), ids)
             /\ Await("values.update Registrations")
             /\ UNCHANGED <<outcome, failed>>
    /\ UNCHANGED <<laterVars, inputVars, builderVars, teamTab>>

\* The step after populateRegistrationsSheet: the team roster when the event
\* supports teams (line 151), else the dashboard.
AfterPopulateRegistrations ==
    IF supportsTeamRegistration(eventData)
    THEN "values.update Team Members"
    ELSE "values.clear Dashboard"

PopulateRegistrationsReturns ==
    /\ pc = "values.update Registrations"
    /\ \E ok \in BOOLEAN :
          failed' = IF ok THEN failed ELSE failed \cup {"populateRegistrations"}
    /\ Await(AfterPopulateRegistrations)
    /\ UNCHANGED <<laterVars, inputVars, builderVars, spreadsheetId, outcome, tabs, teamTab>>

\* Lines 151-159: populateTeamMembersSheet returns; a failure is only logged.
PopulateTeamMembersReturns ==
    /\ pc = "values.update Team Members"
    /\ \E ok \in BOOLEAN :
          /\ failed' = IF ok THEN failed ELSE failed \cup {"populateTeamMembers"}
          /\ teamTab' = IF ok THEN WriteTeamData(teamTab, eventData, registrations)
                        ELSE teamTab
    /\ Await("values.clear Dashboard")
    /\ UNCHANGED <<laterVars, inputVars, builderVars, spreadsheetId, outcome, tabs>>

\* populateDashboardSheet lines 1201-1208: a failed clear is only logged.
DashboardClearReturns ==
    /\ pc = "values.clear Dashboard"
    /\ \E ok \in BOOLEAN :
          failed' = IF ok THEN failed ELSE failed \cup {"clearDashboard"}
    /\ Await("values.update Dashboard")
    /\ UNCHANGED <<laterVars, inputVars, builderVars, spreadsheetId, outcome, tabs, teamTab>>

\* Lines 176-184: the fallback after a failed formatRegistrationsSheet.
FallbackApplies == isAutoCreate /\ Len(registrations.a) = 0

\* The step after formatRegistrationsSheet and its fallback.
AfterFormatRegistrations ==
    IF supportsTeamRegistration(eventData)
    THEN "batchUpdate Team Members"
    ELSE "batchUpdate Dashboard"

\* Lines 161-184: the dashboard write returns; formatRegistrationsSheet
\* builds its requests, which may throw before its batchUpdate.
DashboardUpdateReturns ==
    /\ pc = "values.update Dashboard"
    /\ \E ok \in BOOLEAN :
          LET f == IF ok THEN failed ELSE failed \cup {"populateDashboard"}
          IN  IF FormatRegistrationsThrows(eventData, registrations)
              THEN /\ failed' = f \cup {"formatRegistrations"}
                   /\ Await(IF FallbackApplies
                            THEN "batchUpdate Registrations fallback"
                            ELSE AfterFormatRegistrations)
              ELSE /\ failed' = f
                   /\ Await("batchUpdate Registrations")
    /\ UNCHANGED <<laterVars, inputVars, builderVars, spreadsheetId, outcome, tabs, teamTab>>

FormatRegistrationsReturns ==
    /\ pc = "batchUpdate Registrations"
    /\ \E ok \in BOOLEAN :
          IF ok
          THEN /\ Await(AfterFormatRegistrations)
               /\ UNCHANGED failed
          ELSE /\ failed' = failed \cup {"formatRegistrations"}
               /\ Await(IF FallbackApplies
                        THEN "batchUpdate Registrations fallback"
                        ELSE AfterFormatRegistrations)
    /\ UNCHANGED <<laterVars, inputVars, builderVars, spreadsheetId, outcome, tabs, teamTab>>

FormatFallbackReturns ==
    /\ pc = "batchUpdate Registrations fallback"
    /\ \E ok \in BOOLEAN :
          failed' = IF ok THEN failed ELSE failed \cup {"formatFallback"}
    /\ Await(AfterFormatRegistrations)
    /\ UNCHANGED <<laterVars, inputVars, builderVars, spreadsheetId, outcome, tabs, teamTab>>

\* Variant: a failed formatTeamMembersSheet ends the formatting; the
\* Dashboard tab is left unformatted.
FormatTeamMembersReturns_FailureEnds ==
    /\ pc = "batchUpdate Team Members"
    /\ \E ok \in BOOLEAN :
          /\ failed' = IF ok THEN failed ELSE failed \cup {"formatTeamMembers"}
          /\ teamTab' = IF ok THEN ApplyTeamFormats(teamTab, eventData, registrations)
                        ELSE teamTab
          /\ Await(IF ok THEN "batchUpdate Dashboard" ELSE "permissions.create")
    /\ UNCHANGED <<laterVars, inputVars, builderVars, spreadsheetId, outcome, tabs>>

\* Lines 186-194: formatTeamMembersSheet returns; a failure is only logged.
FormatTeamMembersReturns ==
    /\ pc = "batchUpdate Team Members"
    /\ \E ok \in BOOLEAN :
          /\ failed' = IF ok THEN failed ELSE failed \cup {"formatTeamMembers"}
          /\ teamTab' = IF ok THEN ApplyTeamFormats(teamTab, eventData, registrations)
                        ELSE teamTab
    /\ Await("batchUpdate Dashboard")
    /\ UNCHANGED <<laterVars, inputVars, builderVars, spreadsheetId, outcome, tabs>>

FormatDashboardReturns ==
    /\ pc = "batchUpdate Dashboard"
    /\ \E ok \in BOOLEAN :
          failed' = IF ok THEN failed ELSE failed \cup {"formatDashboard"}
    /\ Await("permissions.create")
    /\ UNCHANGED <<laterVars, inputVars, builderVars, spreadsheetId, outcome, tabs, teamTab>>

\* What createEventSheet returns (lines 213-223).
CreateResult(id) ==
    [status |-> "success", message |-> "Google Sheet created successfully",
     spreadsheetId |-> id, shareableLink |-> ShareableLink(id),
     title |-> eventData.title.s \o " - Registrations",
     rowCount |-> Len(registrations.a)]

\* Variant: a failure of the permission call reaches createEventSheet's
\* catch block.
MakePublicReturns_Rethrows ==
    /\ pc = "permissions.create"
    /\ \/ \E error \in RemoteErrors :
             /\ Throw(error)
             /\ failed' = failed \cup {"makeSheetPublic"}
       \/ /\ pc' = "returned"
          /\ outcome' = CreateResult(spreadsheetId)
          /\ UNCHANGED <<failed, formatted>>
    /\ UNCHANGED <<laterVars, inputVars, builderVars, calls, spreadsheetId, tabs, teamTab>>

\* makeSheetPublic (lines 1856-1870) swallows a failure of the permission
\* call; createEventSheet then returns.
MakePublicReturns ==
    /\ pc = "permissions.create"
    /\ \E ok \in BOOLEAN :
          failed' = IF ok THEN failed ELSE failed \cup {"makeSheetPublic"}
    /\ pc' = "returned"
    /\ outcome' = CreateResult(spreadsheetId)
    /\ UNCHANGED <<laterVars, inputVars, builderVars, calls, spreadsheetId, tabVars>>

Next ==
    \/ CreateEventSheetStart
    \/ SpreadsheetCreateReturns
    \/ PopulateRegistrationsReturns
    \/ PopulateTeamMembersReturns
    \/ DashboardClearReturns
    \/ DashboardUpdateReturns
    \/ FormatRegistrationsReturns
    \/ FormatFallbackReturns
    \/ FormatTeamMembersReturns
    \/ FormatDashboardReturns
    \/ MakePublicReturns

Spec == Init /\ [][Next]_vars

(***************************************************************************)
(* populateDashboardSheet on its own, on a Dashboard tab that is blank or  *)
(* holds the figures of an earlier call.                                   *)
(***************************************************************************)
InitDashboard ==
    /\ eventData = BaseEvent
    /\ \E a \in DashboardRegLists : registrations = RegList("array", a)
    /\ isAutoCreate = FALSE
    /\ pc = "values.clear Dashboard"
    /\ sheetData = NoResult
    /\ repeatData = NoResult
    /\ calls = <<"values.clear Dashboard">>
    /\ failed = {}
    /\ spreadsheetId = "1AbC"
    /\ outcome = Pending
    /\ tabs = <<>>
    /\ formatted = {}
    /\ teamTab = NoTeamTab
    /\ grid = <<>>
    /\ before = <<>>
    /\ NoRequest
    /\ upd = [u \in Invocations |-> NoInvocation]
    /\ dashboard \in {<<>>, <<DashboardData(BaseEvent, <<MinimalReg>>)>>}

\* Lines 1201-1208: the clear returns; its failure is only logged.  Then
\* the figures are computed and the write is issued.
PopulateDashboardClearReturns ==
    /\ pc = "values.clear Dashboard"
    /\ \E ok \in BOOLEAN :
          /\ dashboard' = IF ok THEN <<>> ELSE dashboard
          /\ failed' = IF ok THEN failed ELSE failed \cup {"clearDashboard"}
    /\ pc' = "values.update Dashboard"
    /\ calls' = Append(calls, "values.update Dashboard")
    /\ UNCHANGED <<inputVars, builderVars, spreadsheetId, outcome, tabVars, grid, upd,
                   before, routeVars>>

\* Lines 1285-1292: the write returns; its failure is thrown to the caller.
PopulateDashboardUpdateReturns ==
    /\ pc = "values.update Dashboard"
    /\ \E ok \in BOOLEAN :
          IF ok
          THEN /\ dashboard' = <<DashboardData(eventData, registrations.a)>>
               /\ pc' = "returned"
               /\ UNCHANGED failed
          ELSE /\ pc' = "thrown"
               /\ failed' = failed \cup {"populateDashboard"}
               /\ UNCHANGED dashboard
    /\ UNCHANGED <<inputVars, builderVars, calls, spreadsheetId, outcome, tabVars,
                   grid, upd, before, routeVars>>

NextDashboard == PopulateDashboardClearReturns \/ PopulateDashboardUpdateReturns

SpecDashboard == InitDashboard /\ [][NextDashboard]_vars

(***************************************************************************)
(* updateEventSheet on an existing spreadsheet.  Each action is the return *)
(* of the remote call invocation u awaits, followed by its code up to the  *)
(* next remote call.                                                       *)
(***************************************************************************)
\* The state an update finds: a spreadsheet written from earlier inputs.
ExistingSheet ==
    /\ eventData = NoEvent("undefined")
    /\ registrations = RegList("undefined", <<>>)
    /\ isAutoCreate = FALSE
    /\ pc = "done"
    /\ sheetData = NoResult
    /\ repeatData = NoResult
    /\ calls = <<>>
    /\ failed = {}
    /\ spreadsheetId = "1AbC"
    /\ outcome = Pending
    /\ tabs \in ExistingTabs
    /\ formatted = {}
    /\ NoRequest
    /\ \E earlier \in EarlierInputs :
          /\ grid = WrittenSheet(earlier[1], earlier[2])
          /\ before = grid
          /\ dashboard = <<DashboardData(earlier[1], earlier[2].a)>>
          /\ teamTab = IF \E i \in 1..Len(tabs) : tabs[i].title = "Team Members"
                       THEN WriteTeamData(NoTeamTab, earlier[1], earlier[2])
                       ELSE NoTeamTab

InitUpdate ==
    /\ ExistingSheet
    /\ \E e \in UpdateEvents, r \in UpdateRegLists :
          upd = [u \in Invocations |->
                   IF u = 1 THEN Invocation("called", e, r) ELSE NoInvocation]

HasTab(title) == \E i \in 1..Len(tabs) : tabs[i].title = title

\* Lines 319-333: the Dashboard refresh if the tab exists, else the return.
AfterTeamMembers ==
    IF HasTab("Dashboard") THEN "values.clear Dashboard" ELSE "returned"

\* Lines 299-317: the Team Members refresh if the tab exists and some
\* registration has team members.
AfterFormat(inv) ==
    IF HasTab("Team Members") /\ hasTeamRegistrations(inv.registrations)
    THEN "values.update Team Members"
    ELSE AfterTeamMembers

\* Lines 260-271.
UpdateEventSheetStart(u) ==
    /\ upd[u].pc = "called"
    /\ LET message == UpdateStartMessage(upd[u].eventData, upd[u].registrations)
       IN  upd' = [upd EXCEPT ![u] =
                     IF message # "" THEN UpdateRethrow(@, Error(message, 0))
                     ELSE Proceed(@, "values.clear Registrations")]
    /\ UNCHANGED <<createVars, grid, dashboard>>

\* Lines 268-288: the clear returns; allData is built and written from A1.
UpdateClearReturns(u) ==
    /\ upd[u].pc = "values.clear Registrations"
    /\ \/ \E error \in RemoteErrors :
             /\ upd' = [upd EXCEPT ![u] = UpdateRethrow(@, error)]
             /\ UNCHANGED grid
       \/ /\ grid' = ValuesClear(grid)
          /\ upd' = [upd EXCEPT ![u] = Proceed(@, "values.update Registrations")]
    /\ UNCHANGED <<createVars, dashboard>>

\* Lines 281-291: the write returns; the spreadsheet is then read.
UpdateWriteReturns(u) ==
    /\ upd[u].pc = "values.update Registrations"
    /\ \/ \E error \in RemoteErrors :
             /\ upd' = [upd EXCEPT ![u] = UpdateRethrow(@, error)]
             /\ UNCHANGED grid
       \/ /\ grid' = ValuesUpdate(grid,
                         AllData(upd[u].eventData,
                                 prepareSheetData(upd[u].eventData,
                                                  upd[u].registrations)))
          /\ upd' = [upd EXCEPT ![u] = Proceed(@, "spreadsheets.get")]
    /\ UNCHANGED <<createVars, dashboard>>

\* Lines 291-297: the read returns; formatSheet issues its batchUpdate.
UpdateGetReturns(u) ==
    /\ upd[u].pc = "spreadsheets.get"
    /\ \/ \E error \in RemoteErrors :
             upd' = [upd EXCEPT ![u] = UpdateRethrow(@, error)]
       \/ upd' = [upd EXCEPT ![u] =
                    [Proceed(@, "batchUpdate Registrations") EXCEPT
                        !.requests =
                            FormatSheetRanges(
                               Len(prepareSheetData(upd[u].eventData,
                                                    upd[u].registrations).headers),
                               Len(upd[u].registrations.a) + 3)]]
    /\ UNCHANGED <<createVars, grid, dashboard>>

\* Line 297 onward: formatSheet returns.  The call stands outside any inner
\* try, so its failure reaches the catch block of updateEventSheet.
UpdateFormatReturns(u) ==
    /\ upd[u].pc = "batchUpdate Registrations"
    /\ \/ \E error \in RemoteErrors :
             upd' = [upd EXCEPT ![u] =
                       UpdateRethrow(Logged(@, "formatSheet", FALSE), error)]
       \/ upd' = [upd EXCEPT ![u] = Proceed(@, AfterFormat(@))]
    /\ UNCHANGED <<createVars, grid, dashboard>>

\* Variant: a failure of the Team Members refresh fails the update.
UpdateTeamMembersReturns_Rethrows(u) ==
    /\ upd[u].pc = "values.update Team Members"
    /\ \/ \E error \in RemoteErrors :
             /\ upd' = [upd EXCEPT ![u] =
                       UpdateRethrow(Logged(@, "populateTeamMembers", FALSE), error)]
             /\ UNCHANGED teamTab
       \/ /\ upd' = [upd EXCEPT ![u] = Proceed(@, AfterTeamMembers)]
          /\ teamTab' = WriteTeamData(teamTab, upd[u].eventData, upd[u].registrations)
    /\ UNCHANGED <<updateVars, grid, dashboard>>

\* Lines 306-314: populateTeamMembersSheet returns; a failure is logged.
UpdateTeamMembersReturns(u) ==
    /\ upd[u].pc = "values.update Team Members"
    /\ \E ok \in BOOLEAN :
          /\ upd' = [upd EXCEPT ![u] =
                       Proceed(Logged(@, "populateTeamMembers", ok), AfterTeamMembers)]
          /\ teamTab' = IF ok
                        THEN WriteTeamData(teamTab, upd[u].eventData,
                                           upd[u].registrations)
                        ELSE teamTab
    /\ UNCHANGED <<updateVars, grid, dashboard>>

\* populateDashboardSheet lines 1201-1208: a failed clear is only logged.
UpdateDashboardClearReturns(u) ==
    /\ upd[u].pc = "values.clear Dashboard"
    /\ \E ok \in BOOLEAN :
          /\ dashboard' = IF ok THEN <<>> ELSE dashboard
          /\ upd' = [upd EXCEPT ![u] =
                       Proceed(Logged(@, "clearDashboard", ok),
                               "values.update Dashboard")]
    /\ UNCHANGED <<createVars, grid>>

\* Lines 321-341: populateDashboardSheet returns; a failure is logged and
\* updateEventSheet returns.
UpdateDashboardWriteReturns(u) ==
    /\ upd[u].pc = "values.update Dashboard"
    /\ \E ok \in BOOLEAN :
          /\ dashboard' =
                IF ok THEN <<DashboardData(upd[u].eventData, upd[u].registrations.a)>>
                ELSE dashboard
          /\ upd' = [upd EXCEPT ![u] =
                       Proceed(Logged(@, "populateDashboard", ok), "returned")]
    /\ UNCHANGED <<createVars, grid>>

UpdateStep(u) ==
    \/ UpdateEventSheetStart(u)
    \/ UpdateClearReturns(u)
    \/ UpdateWriteReturns(u)
    \/ UpdateGetReturns(u)
    \/ UpdateFormatReturns(u)
    \/ UpdateTeamMembersReturns(u)
    \/ UpdateDashboardClearReturns(u)
    \/ UpdateDashboardWriteReturns(u)

NextUpdate == \E u \in Invocations : UpdateStep(u)

SpecUpdate == InitUpdate /\ [][NextUpdate]_vars

\* Two requests for the same spreadsheet, both accepted before either has
\* issued a remote call; their remote calls interleave in any order.
InitConcurrent ==
    /\ ExistingSheet
    /\ Len(tabs) = 3
    /\ \E first \in ConcurrentInputs, second \in ConcurrentInputs :
          upd = [u \in Invocations |->
                   IF u = 1 THEN Invocation("called", first[1], first[2])
                   ELSE Invocation("called", second[1], second[2])]

SpecConcurrent == InitConcurrent /\ [][NextUpdate]_vars

(***************************************************************************)
(* routes/sheets.js: POST /create and PUT /:spreadsheetId/update.  The     *)
(* handler validates the body and calls the service, whose steps are the   *)
(* actions above; it answers when the service has returned or thrown.      *)
(***************************************************************************)
InitRoute ==
    /\ \/ \E route \in Routes, e \in BodyEvents, r \in BodyRegLists :
             request = Request(route, Body(e, r))
       \/ \E route \in IdRoutes : request = Request(route, NoBody)
    /\ response = NoResponse
    /\ invoked = {}
    /\ eventData = NoEvent("undefined")
    /\ registrations = RegList("undefined", <<>>)
    /\ isAutoCreate = FALSE
    /\ pc = "request"
    /\ sheetData = NoResult
    /\ repeatData = NoResult
    /\ calls = <<>>
    /\ failed = {}
    /\ outcome = Pending
    /\ formatted = {}
    /\ teamTab = NoTeamTab
    /\ upd = [u \in Invocations |-> NoInvocation]
    /\ IF request.route = "POST /create"
       THEN /\ spreadsheetId = ""
            /\ tabs = <<>>
            /\ grid = <<>>
            /\ dashboard = <<>>
       ELSE /\ spreadsheetId = "1AbC"
            /\ tabs = <<Tab("Registrations", 0), Tab("Team Members", 1837),
                        Tab("Dashboard", 942)>>
            /\ grid = WrittenSheet(BaseEvent, RegList("array", <<MinimalReg>>))
            /\ dashboard = <<DashboardData(BaseEvent, <<MinimalReg>>)>>
    /\ before = grid

Respond(r) == response' = r /\ pc' = "responded"

\* Variant: an empty registrations list is passed on to the service.
PostCreateReceives_EmptyAccepted ==
    /\ pc = "request"
    /\ request.route = "POST /create"
    /\ LET details == SchemaViolations(request.body)
           value == SchemaValue(request.body)
       IN  IF details # <<>>
           THEN /\ Respond(Response(400, FALSE, "Validation error", "", details))
                /\ UNCHANGED <<inputVars, invoked>>
           ELSE /\ eventData' = value.eventData
                /\ registrations' = value.registrations
                /\ isAutoCreate' = FALSE
                /\ invoked' = invoked \cup {"createEventSheet"}
                /\ pc' = "start"
                /\ UNCHANGED response
    /\ UNCHANGED <<builderVars, remoteVars, tabVars, grid, dashboard, upd, before,
                   request>>

\* router.post('/create'), lines 109-157: the schema check, the check for
\* an empty list, then createEventSheet(eventData, registrations).
PostCreateReceives ==
    /\ pc = "request"
    /\ request.route = "POST /create"
    /\ LET details == SchemaViolations(request.body)
           value == SchemaValue(request.body)
       IN  IF details # <<>>
           THEN /\ Respond(Response(400, FALSE, "Validation error", "", details))
                /\ UNCHANGED <<inputVars, invoked>>
           ELSE IF Len(value.registrations.a) = 0
           THEN /\ Respond(Response(400, FALSE, "No registrations provided",
                                    "Cannot create a sheet without registration data",
                                    <<>>))
                /\ UNCHANGED <<inputVars, invoked>>
           ELSE /\ eventData' = value.eventData
                /\ registrations' = value.registrations
                /\ isAutoCreate' = FALSE
                /\ invoked' = invoked \cup {"createEventSheet"}
                /\ pc' = "start"
                /\ UNCHANGED response
    /\ UNCHANGED <<builderVars, remoteVars, tabVars, grid, dashboard, upd, before,
                   request>>

\* Lines 157-202: createEventSheet has returned (201) or thrown (the catch
\* block picks the status from the message).
PostCreateResponds ==
    /\ request.route = "POST /create"
    /\ pc \in {"returned", "thrown"}
    /\ Respond(IF pc = "returned"
               THEN Response(201, TRUE, "", "Google Sheet created successfully", <<>>)
               ELSE CreateErrorResponse(outcome.message))
    /\ UNCHANGED <<inputVars, builderVars, remoteVars, tabVars, grid, dashboard, upd,
                   before, request, invoked>>

\* router.put('/:spreadsheetId/update'), lines 209-236: the schema check
\* stops at the first violation; then updateEventSheet is called.
PutUpdateReceives ==
    /\ pc = "request"
    /\ request.route = "PUT /:spreadsheetId/update"
    /\ LET details == SchemaViolations(request.body)
           value == SchemaValue(request.body)
       IN  IF details # <<>>
           THEN /\ Respond(Response(400, FALSE, "Validation error", "",
                                    <<Head(details)>>))
                /\ UNCHANGED <<upd, invoked>>
           ELSE /\ upd' = [upd EXCEPT ![1] = Invocation("called", value.eventData,
                                                        value.registrations)]
                /\ invoked' = invoked \cup {"updateEventSheet"}
                /\ pc' = "updateEventSheet"
                /\ UNCHANGED response
    /\ UNCHANGED <<inputVars, builderVars, remoteVars, tabVars, grid, dashboard,
                   before, request>>

\* Lines 236-270: updateEventSheet has returned (200) or thrown.
PutUpdateResponds ==
    /\ pc = "updateEventSheet"
    /\ upd[1].pc \in {"returned", "thrown"}
    /\ Respond(IF upd[1].pc = "returned"
               THEN Response(200, TRUE, "", "Google Sheet updated successfully", <<>>)
               ELSE UpdateErrorResponse(upd[1].message))
    /\ UNCHANGED <<inputVars, builderVars, remoteVars, tabVars, grid, dashboard, upd,
                   before, request, invoked>>

\* router.get('/:spreadsheetId'), lines 277-292: the id of the path is a
\* text that is not empty; getSheetInfo issues spreadsheets.get.
GetSheetReceives ==
    /\ pc = "request"
    /\ request.route = "GET /:spreadsheetId"
    /\ invoked' = invoked \cup {"getSheetInfo"}
    /\ pc' = "spreadsheets.get"
    /\ calls' = Append(calls, "spreadsheets.get")
    /\ UNCHANGED <<inputVars, builderVars, failed, spreadsheetId, outcome, tabVars,
                   grid, dashboard, upd, before, request, response>>

\* getSheetInfo (lines 1875-1892): the read returns; a failure is rethrown
\* as a new error that carries the message only.
GetSheetInfoReturns ==
    /\ pc = "spreadsheets.get"
    /\ \/ \E error \in RemoteErrors :
             /\ pc' = "thrown"
             /\ outcome' = [Pending EXCEPT
                               !.status = "thrown",
                               !.message = "Failed to get sheet information: "
                                              \o error.message]
             /\ failed' = failed \cup {FailedCall("getSheetInfo", error)}
       \/ /\ pc' = "returned"
          /\ outcome' = [Pending EXCEPT !.status = "success",
                                        !.shareableLink = ShareableLink(spreadsheetId)]
          /\ UNCHANGED failed
    /\ UNCHANGED <<inputVars, builderVars, calls, spreadsheetId, tabVars, grid,
                   dashboard, upd, before, routeVars>>

\* Lines 292-326: getSheetInfo has returned (200) or thrown.
GetSheetResponds ==
    /\ request.route = "GET /:spreadsheetId"
    /\ pc \in {"returned", "thrown"}
    /\ Respond(IF pc = "returned"
               THEN Response(200, TRUE, "", "Sheet information retrieved successfully",
                             <<>>)
               ELSE GetErrorResponse(outcome.message))
    /\ UNCHANGED <<inputVars, builderVars, remoteVars, tabVars, grid, dashboard, upd,
                   before, request, invoked>>

\* router.delete('/:spreadsheetId'), lines 333-346: deleteSheet issues
\* drive.files.delete.
DeleteSheetReceives ==
    /\ pc = "request"
    /\ request.route = "DELETE /:spreadsheetId"
    /\ invoked' = invoked \cup {"deleteSheet"}
    /\ pc' = "files.delete"
    /\ calls' = Append(calls, "files.delete")
    /\ UNCHANGED <<inputVars, builderVars, failed, spreadsheetId, outcome, tabVars,
                   grid, dashboard, upd, before, request, response>>

\* deleteSheet (lines 1897-1911): the delete returns; on success the
\* spreadsheet and its tabs are gone, a failure is rethrown as a new error
\* that carries the message only.
DeleteSheetReturns ==
    /\ pc = "files.delete"
    /\ \/ \E error \in RemoteErrors :
             /\ pc' = "thrown"
             /\ outcome' = [Pending EXCEPT
                               !.status = "thrown",
                               !.message = "Failed to delete sheet: " \o error.message]
             /\ failed' = failed \cup {FailedCall("deleteSheet", error)}
             /\ UNCHANGED <<tabs, teamTab, grid, dashboard>>
       \/ /\ pc' = "returned"
          /\ outcome' = [Pending EXCEPT !.status = "success",
                                        !.message = "Sheet deleted successfully"]
          /\ tabs' = <<>>
          /\ teamTab' = NoTeamTab
          /\ grid' = <<>>
          /\ dashboard' = <<>>
          /\ UNCHANGED failed
    /\ UNCHANGED <<inputVars, builderVars, calls, spreadsheetId, formatted, upd,
                   before, routeVars>>

\* Lines 346-376: deleteSheet has returned (200) or thrown.
DeleteSheetResponds ==
    /\ request.route = "DELETE /:spreadsheetId"
    /\ pc \in {"returned", "thrown"}
    /\ Respond(IF pc = "returned"
               THEN Response(200, TRUE, "", "Google Sheet deleted successfully", <<>>)
               ELSE DeleteErrorResponse(outcome.message))
    /\ UNCHANGED <<inputVars, builderVars, remoteVars, tabVars, grid, dashboard, upd,
                   before, request, invoked>>

NextRoute ==
    \/ PostCreateReceives
    \/ CreateEventSheetStart
    \/ SpreadsheetCreateReturns
    \/ PopulateRegistrationsReturns
    \/ PopulateTeamMembersReturns
    \/ DashboardClearReturns
    \/ DashboardUpdateReturns
    \/ FormatRegistrationsReturns
    \/ FormatTeamMembersReturns
    \/ FormatDashboardReturns
    \/ MakePublicReturns
    \/ PostCreateResponds
    \/ PutUpdateReceives
    \/ UpdateStep(1)
    \/ PutUpdateResponds
    \/ GetSheetReceives
    \/ GetSheetInfoReturns
    \/ GetSheetResponds
    \/ DeleteSheetReceives
    \/ DeleteSheetReturns
    \/ DeleteSheetResponds

SpecRoute == InitRoute /\ [][NextRoute]_vars

(***************************************************************************)
(* Properties of the builder (SpecPrepare).                                *)
(***************************************************************************)
\* The first call has returned a grid.
GridReturned == pc \in {"prepared", "repeated"} /\ ~sheetData.thrown

\* A registration the row callback processes without raising.
WellFormedReg(reg) ==
    /\ reg.t = "object"
    /\ Truthy(reg.participant_name)
    /\ Truthy(reg.participant_email)

\* A custom field definition with a non-empty string id and label.
WellFormedField(field) ==
    /\ field.t = "object"
    /\ field.id.t = "string" /\ field.id.s # ""
    /\ field.label.t = "string" /\ field.label.s # ""

\* The well-formed definitions of the event, in custom_fields order.
WellFormedFields ==
    IF eventData.custom_fields.t = "array"
    THEN SelectSeq(eventData.custom_fields.a, WellFormedField)
    ELSE <<>>

\* The event requires payment, or some registration carries a payment field.
PaymentRelevant ==
    \/ Truthy(eventData.payment_required)
    \/ Truthy(eventData.requires_payment)
    \/ \E i \in 1..Len(registrations.a) :
          /\ registrations.a[i].t = "object"
          /\ \/ Truthy(registrations.a[i].payment_status)
             \/ Truthy(registrations.a[i].payment_amount)
             \/ Truthy(registrations.a[i].payment_screenshot_url)

\* The 1-based position of header name in the returned headers, 0 if absent.
HeaderPosition(name) ==
    IF \E i \in 1..Len(sheetData.headers) : sheetData.headers[i] = Str(name)
    THEN CHOOSE i \in 1..Len(sheetData.headers) :
            /\ sheetData.headers[i] = Str(name)
            /\ \A j \in 1..(i - 1) : sheetData.headers[j] # Str(name)
    ELSE 0

\* C1: whenever prepareSheetData returns, every returned row, the rows of
\* registrations that failed per-row processing included, has exactly
\* headers.length cells.
C1_EveryRowHasHeaderLength ==
    GridReturned =>
        \A i \in 1..Len(sheetData.rows) :
            Len(sheetData.rows[i]) = Len(sheetData.headers)

\* C2: for a non-null event and any array of registrations, null, undefined,
\* non-object and nameless entries included, prepareSheetData returns
\* normally with one row per registration.
C2_NeverAbortsTheBatch ==
    (pc \in {"prepared", "repeated"}
        /\ ~Nullish(eventData) /\ registrations.t = "array")
    => (~sheetData.thrown /\ Len(sheetData.rows) = Len(registrations.a))

\* C3: for a non-empty registrations array the headers are the 12 core
\* columns, one column per well-formed custom field in custom_fields order,
\* the 3 payment columns iff payment is relevant, then 'Notes'; and every
\* normally processed row holds, under each header, the value of that header.
C3_HeaderOrderAndRowAlignment ==
    (GridReturned /\ Len(registrations.a) > 0) =>
        LET headers == sheetData.headers
            C == Len(WellFormedFields)
            P == IF PaymentRelevant THEN 3 ELSE 0
        IN  /\ Len(headers) = 12 + C + P + 1
            /\ SubSeq(headers, 1, 12) =
                  << Str("S.No."), Str("Name"), Str("Email"), Str("Phone"),
                     Str("Student ID"), Str("Department"), Str("Year"),
                     Str("Registration Type"), Str("Registration Status"),
                     Str("Attendance Status"), Str("Attendance Time"),
                     Str("Registration Date") >>
            /\ \A k \in 1..C : headers[12 + k] = WellFormedFields[k].label
            /\ PaymentRelevant =>
                  SubSeq(headers, 13 + C, 15 + C) =
                      << Str("Payment Verified"), Str("Payment Amount"),
                         Str("Payment Screenshot") >>
            /\ headers[12 + C + P + 1] = Str("Notes")
            /\ \A i \in 1..Len(registrations.a) :
                  WellFormedReg(registrations.a[i]) =>
                      LET reg == registrations.a[i]
                          row == sheetData.rows[i]
                      IN  /\ Len(row) = Len(headers)
                          /\ row[HeaderPosition("S.No.")] = Num(i)
                          /\ row[HeaderPosition("Name")] = reg.participant_name
                          /\ row[HeaderPosition("Email")] = reg.participant_email
                          /\ row[HeaderPosition("Phone")] =
                                IF Truthy(reg.participant_phone)
                                THEN reg.participant_phone ELSE Str("N/A")
                          /\ (row[HeaderPosition("Attendance Status")] = Str("Attended"))
                                <=> (reg.attendance_status = Str("attended"))
                          /\ \A k \in 1..C :
                                (row[12 + k] = Str("N/A"))
                                  <=> (CustomFieldValue(reg, WellFormedFields[k].id.s)
                                         \in {Undef, Null, Str(""), Arr(<<>>)})
                          /\ PaymentRelevant =>
                                row[HeaderPosition("Payment Verified")]
                                    \in {Str("Yes"), Str("No")}
                          /\ row[HeaderPosition("Notes")] = Str("")

\* C3 witness: two custom columns and the payment columns around a normally
\* processed row.
C3_Witness ==
    /\ GridReturned
    /\ Len(sheetData.headers) = 18
    /\ sheetData.headers[13] = Str("Topics")
    /\ \E i \in 1..Len(registrations.a) :
          WellFormedReg(registrations.a[i]) /\ sheetData.rows[i][15] = Str("Yes")

\* The number of custom field columns among the returned headers.
CustomColumnCount ==
    Len(sheetData.headers) - 12 - 1
      - (IF HeaderPosition("Payment Verified") > 0 THEN 3 ELSE 0)

\* C4: for every accepted input, empty registrations included, the number of
\* custom columns equals the number of custom_fields entries with a valid id
\* and a valid label.
C4_OnlyValidFieldsGetHeaders ==
    GridReturned => CustomColumnCount = Len(WellFormedFields)

\* C5: in a normally processed row the cell of a valid custom field is 'N/A'
\* when the registration has no value for the field id (absent, null, empty
\* string, empty list, or no additional_info.custom_fields), the elements
\* joined with ', ' for a non-empty list, and the value's string form
\* otherwise.
C5_CustomFieldCells ==
    (GridReturned /\ Len(registrations.a) > 0) =>
        \A i \in 1..Len(registrations.a) : \A k \in 1..Len(WellFormedFields) :
            WellFormedReg(registrations.a[i]) =>
                LET reg == registrations.a[i]
                    info == reg.additional_info
                    id == WellFormedFields[k].id.s
                    value == IF info.t = "object" /\ info.custom_fields.t = "object"
                             THEN info.custom_fields.m[id] ELSE Undef
                    cell == sheetData.rows[i][12 + k]
                IN  IF value \in {Undef, Null, Str(""), Arr(<<>>)}
                    THEN cell = Str("N/A")
                    ELSE IF value.t = "array"
                    THEN cell = Str(Join(value.a, ", "))
                    ELSE cell = Str(JsString(value))

\* C5 witness: one grid showing a joined list, a plain text, a number's
\* string form and 'N/A' for an empty list.
C5_Witness ==
    /\ GridReturned
    /\ \E i, j \in 1..Len(sheetData.rows) :
          /\ WellFormedReg(registrations.a[i])
          /\ WellFormedReg(registrations.a[j])
          /\ Len(sheetData.rows[i]) >= 14
          /\ Len(sheetData.rows[j]) >= 14
          /\ sheetData.headers[13] = Str("T-Shirt Size")
          /\ sheetData.headers[14] = Str("Topics")
          /\ sheetData.rows[i][13] = Str("M")
          /\ sheetData.rows[i][14] = Str("AI, ML")
          /\ sheetData.rows[j][13] = Str("0")
          /\ sheetData.rows[j][14] = Str("N/A")

\* A registration that carries only participant_name and participant_email.
NameAndEmailOnly(reg) ==
    /\ WellFormedReg(reg)
    /\ reg = [NoReg("object") EXCEPT
                 !.participant_name = reg.participant_name,
                 !.participant_email = reg.participant_email]

\* The case of C6: one such registration, an event without custom_fields
\* that does not require payment.
MinimalCase ==
    /\ GridReturned
    /\ eventData.custom_fields.t = "undefined"
    /\ ~Truthy(eventData.payment_required)
    /\ ~Truthy(eventData.requires_payment)
    /\ Len(registrations.a) = 1
    /\ NameAndEmailOnly(registrations.a[1])

\* C6 as stated: 12 core headers plus 'Notes', and every optional core cell
\* (phone, student id, department, year, registration type, registration
\* status, attendance status, attendance time, registration date) is 'N/A'.
C6_Original_AllOptionalCellsNA ==
    MinimalCase =>
        /\ sheetData.headers = CoreHeaders \o <<Str("Notes")>>
        /\ Len(sheetData.rows) = 1
        /\ \A c \in 4..12 : sheetData.rows[1][c] = Str("N/A")

\* C6 as amended: 12 core headers plus 'Notes'; phone, student id, department,
\* year, attendance time and registration date are 'N/A', while registration
\* type is 'Individual', registration status 'Confirmed' and attendance
\* status 'Not Attended'.
C6_MinimalRegistrationRow ==
    MinimalCase =>
        /\ sheetData.headers =
              << Str("S.No."), Str("Name"), Str("Email"), Str("Phone"),
                 Str("Student ID"), Str("Department"), Str("Year"),
                 Str("Registration Type"), Str("Registration Status"),
                 Str("Attendance Status"), Str("Attendance Time"),
                 Str("Registration Date"), Str("Notes") >>
        /\ sheetData.rows =
              << << Num(1), registrations.a[1].participant_name,
                    registrations.a[1].participant_email,
                    Str("N/A"), Str("N/A"), Str("N/A"), Str("N/A"),
                    Str("Individual"), Str("Confirmed"), Str("Not Attended"),
                    Str("N/A"), Str("N/A"), Str("") >> >>

C6_Witness == MinimalCase /\ Len(sheetData.rows) = 1

C8_PaymentCells ==
    (GridReturned /\ HeaderPosition("Payment Verified") > 0) =>
        \A i \in 1..Len(registrations.a) :
            WellFormedReg(registrations.a[i]) =>
                LET reg == registrations.a[i]
                    row == sheetData.rows[i]
                    verified == row[HeaderPosition("Payment Verified")]
                    amount == row[HeaderPosition("Payment Amount")]
                IN  /\ verified \in {Str("Yes"), Str("No")}
                    /\ (verified = Str("Yes"))
                          <=> (reg.payment_status = Str("verified"))
                    /\ amount =
                          IF Truthy(reg.payment_amount)
                          THEN Str("₹" \o JsString(reg.payment_amount))
                          ELSE IF Truthy(eventData.payment_amount)
                          THEN Str("₹" \o JsString(eventData.payment_amount))
                          ELSE Str("N/A")

\* C8 witness: a verified registration with its own amount beside an
\* unverified one that falls back to the event's amount.
C8_Witness ==
    /\ GridReturned
    /\ HeaderPosition("Payment Verified") > 0
    /\ \E i, j \in 1..Len(sheetData.rows) :
          /\ WellFormedReg(registrations.a[i])
          /\ WellFormedReg(registrations.a[j])
          /\ sheetData.rows[i][HeaderPosition("Payment Verified")] = Str("Yes")
          /\ sheetData.rows[i][HeaderPosition("Payment Amount")] = Str("₹250")
          /\ sheetData.rows[j][HeaderPosition("Payment Verified")] = Str("No")
          /\ sheetData.rows[j][HeaderPosition("Payment Amount")] = Str("₹500")

(***************************************************************************)
(* Properties of createEventSheet (Spec).                                  *)
(***************************************************************************)
\* C9: once spreadsheets.create has succeeded the call never throws; it
\* goes on to the end and returns success with the spreadsheet id,
\* rowCount = registrations.length and the link
\* https://docs.google.com/spreadsheets/d/<id>/edit#gid=0, whichever of the
\* later population, formatting and sharing calls fail.
C9_CreatedSheetIsReturned ==
    spreadsheetId # "" =>
        /\ pc # "thrown"
        /\ pc # "returned" => ENABLED Next
        /\ pc = "returned" =>
              /\ outcome.status = "success"
              /\ outcome.spreadsheetId = spreadsheetId
              /\ outcome.rowCount = Len(registrations.a)
              /\ outcome.shareableLink =
                    "https://docs.google.com/spreadsheets/d/" \o spreadsheetId
                      \o "/edit#gid=0"

\* C9 witness: success returned although every later step failed.
C9_Witness ==
    /\ pc = "returned"
    /\ outcome.status = "success"
    /\ outcome.shareableLink =
          "https://docs.google.com/spreadsheets/d/1xYz/edit#gid=0"
    /\ failed = {"populateRegistrations", "populateTeamMembers",
                 "clearDashboard", "populateDashboard", "formatRegistrations",
                 "formatFallback", "formatTeamMembers", "formatDashboard",
                 "makeSheetPublic"}

\* Some custom field definition is not an object or lacks a string id or label.
SomeFieldMalformed ==
    /\ eventData.custom_fields.t = "array"
    /\ \E i \in 1..Len(eventData.custom_fields.a) :
          LET field == eventData.custom_fields.a[i]
          IN  \/ field.t # "object"
              \/ field.id.t # "string"
              \/ field.label.t # "string"

\* The fatal conditions of createEventSheet.
FatalInput ==
    \/ eventData.t \in {"null", "undefined"}
    \/ ~Truthy(eventData.title)
    \/ registrations.t # "array"
    \/ registrations.t = "array" /\ Len(registrations.a) = 0 /\ ~isAutoCreate
    \/ SomeFieldMalformed
    \/ prepareSheetData(eventData, registrations).thrown

\* C10: when a fatal check fails (event or title missing, registrations not
\* a list, empty without isAutoCreate, a malformed custom field definition,
\* or a dry run that throws) the call fails and no remote call is issued,
\* spreadsheets.create least of all.
C10_NoRemoteCallBeforeChecksPass ==
    FatalInput =>
        /\ calls = <<>>
        /\ pc \in {"start", "thrown"}
        /\ pc = "thrown" => outcome.status = "thrown"

\* C10 witness: the call has failed on a malformed custom field definition
\* without any remote call.
C10_Witness ==
    /\ pc = "thrown"
    /\ calls = <<>>
    /\ SomeFieldMalformed
    /\ eventData.t = "object" /\ Truthy(eventData.title)
    /\ registrations.t = "array" /\ Len(registrations.a) > 0
    /\ ~prepareSheetData(eventData, registrations).thrown

\* Some registration carries at least one team member.
SomeTeamMember ==
    \E i \in 1..Len(registrations.a) :
        LET reg == registrations.a[i]
        IN  /\ reg.additional_info.t = "object"
            /\ reg.additional_info.team_members.t = "array"
            /\ reg.additional_info.team_members.a # <<>>

\* The event's participation_type is 'team' or 'both'.
TeamEvent ==
    eventData.participation_type = Str("team")
      \/ eventData.participation_type = Str("both")

TabTitles == [i \in 1..Len(tabs) |-> tabs[i].title]

\* C11: the tabs created are 'Registrations' first and 'Dashboard' last,
\* with 'Team Members' between them exactly when some registration has a
\* team member or the event's participation_type is 'team' or 'both'; and
\* every formatting request is handed the sheet id of the tab whose title
\* is the layout it applies.
C11_TabSetAndSheetIds ==
    spreadsheetId # "" =>
        /\ TabTitles = IF SomeTeamMember \/ TeamEvent
                       THEN <<"Registrations", "Team Members", "Dashboard">>
                       ELSE <<"Registrations", "Dashboard">>
        /\ \A asked \in formatted :
              \E i \in 1..Len(tabs) :
                  /\ tabs[i].title = asked.title
                  /\ tabs[i].sheetId = asked.sheetId

\* C11 witness: a spreadsheet of three tabs, each of which has been
\* formatted, the Team Members tab under the id of the second tab.
C11_Witness ==
    /\ pc = "returned"
    /\ Len(tabs) = 3
    /\ tabs[2] = Tab("Team Members", 5)
    /\ formatted = {Tab("Registrations", 77), Tab("Team Members", 5),
                    Tab("Dashboard", 310)}

\* The remote call has been issued by this invocation.
Issued(call) == \E k \in 1..Len(calls) : calls[k] = call

\* C22: every tab created is also populated and formatted: when the
\* 'Team Members' tab is among the tabs created, the call has issued the
\* write of populateTeamMembersSheet and the batchUpdate of
\* formatTeamMembersSheet by the time it returns.
C22_CreatedTeamTabIsPopulatedAndFormatted ==
    (pc = "returned" /\ \E i \in 1..Len(tabs) : tabs[i].title = "Team Members") =>
        /\ Issued("values.update Team Members")
        /\ Issued("batchUpdate Team Members")

\* The place of a remote call in the order create, populate (Registrations,
\* Team Members, Dashboard), format (Registrations, Team Members, Dashboard),
\* share.
CallRank(call) ==
    CASE call = "spreadsheets.create" -> 1
      [] call = "values.update Registrations" -> 2
      [] call = "values.update Team Members" -> 3
      [] call = "values.clear Dashboard" -> 4
      [] call = "values.update Dashboard" -> 5
      [] call = "batchUpdate Registrations" -> 6
      [] call = "batchUpdate Registrations fallback" -> 7
      [] call = "batchUpdate Team Members" -> 8
      [] call = "batchUpdate Dashboard" -> 9
      [] call = "permissions.create" -> 10

\* The requests of formatRegistrationsSheet cannot be built: the event
\* requires payment and some payment proof is neither absent nor a text.
ProofNotText ==
    /\ Truthy(eventData.requires_payment) \/ Truthy(eventData.payment_required)
    /\ \E i \in 1..Len(registrations.a) :
          LET url == registrations.a[i].payment_screenshot_url
          IN  Truthy(url) /\ url.t # "string"

\* C23: the remote calls of one createEventSheet invocation are issued one
\* at a time (the call awaited is the last one issued) and in the order
\* create, populate, format, share; and no failure skips a later call: a
\* call that returns has issued the create call, both population calls of
\* the Registrations and Dashboard tabs, the formatting calls and the
\* sharing call, and those of the Team Members tab for a team event,
\* whatever has failed.
C23_CallsInOrderNoneSkipped ==
    /\ \A j, k \in 1..Len(calls) : j < k => CallRank(calls[j]) < CallRank(calls[k])
    /\ pc \notin {"start", "thrown", "returned"} =>
          calls # <<>> /\ pc = calls[Len(calls)]
    /\ pc = "returned" =>
          /\ \A call \in {"spreadsheets.create", "values.update Registrations",
                            "values.clear Dashboard", "values.update Dashboard",
                            "batchUpdate Dashboard", "permissions.create"} :
                Issued(call)
          /\ ~ProofNotText => Issued("batchUpdate Registrations")
          /\ TeamEvent => /\ Issued("values.update Team Members")
                          /\ Issued("batchUpdate Team Members")

\* C23 witness: a team event whose population of the Registrations tab and
\* formatting of the Team Members tab have failed, and for which all nine
\* calls were issued in order.
C23_Witness ==
    /\ pc = "returned"
    /\ {"populateRegistrations", "formatTeamMembers"} \subseteq failed
    /\ calls = <<"spreadsheets.create", "values.update Registrations",
                 "values.update Team Members", "values.clear Dashboard",
                 "values.update Dashboard", "batchUpdate Registrations",
                 "batchUpdate Team Members", "batchUpdate Dashboard",
                 "permissions.create">>

\* C25: createEventSheet called with null or undefined event data fails
\* with 'Event data is required but was not provided', an error the create
\* route answers with 400, and has issued no remote call.
C25_NoEventDataIsAValidationError ==
    (pc = "thrown" /\ eventData.t \in {"null", "undefined"}) =>
        /\ Includes(outcome.message, "Event data is required but was not provided")
        /\ CreateErrorResponse(outcome.message).status = 400
        /\ calls = <<>>

Row(g, r) == IF r <= Len(g) THEN g[r] ELSE <<>>

\* The cell a value given to values.update leaves.
Entered(v) == IF v.t \in {"null", "undefined"} THEN Str("") ELSE v

\* The Role cell of row r of the Team Members tab.
Role(r) == CellAt(teamTab.values, r, 3)

\* The row formats that cover row r (row r is row index r - 1).
FormatsOf(r) ==
    {k \in 1..Len(teamTab.rowFormats) :
        /\ teamTab.rowFormats[k].startRowIndex < r
        /\ r <= teamTab.rowFormats[k].endRowIndex}

StyledAs(r, styles) ==
    \E k \in FormatsOf(r) : teamTab.rowFormats[k].style \in styles

\* The rows written or formatted below the header row.
TeamDataRows ==
    (6..Len(teamTab.values))
      \cup {teamTab.rowFormats[k].startRowIndex + 1 :
               k \in {j \in 1..Len(teamTab.rowFormats) :
                         teamTab.rowFormats[j].startRowIndex >= 5}}

\* The rows that open a roster entry: a team lead or an individual.
EntryRows == {r \in TeamDataRows : Role(r) \in {Str("Team Lead"), Str("Individual")}}

\* The registration is on the roster of the event.
IsRostered(reg) ==
    HasTeamMembers(reg) \/ eventData.participation_type = Str("both")

\* C28: once populateTeamMembersSheet and formatTeamMembersSheet have both
\* succeeded for the same event and registrations, every row below the
\* header has at most one row format; the team-lead format is on exactly
\* the 'Team Lead' rows, the member formats on exactly the 'Member' rows,
\* the individual format on exactly the 'Individual' rows, and a separator
\* row has none; and the n-th team lead or individual row carries team
\* number n and the name of the n-th registration on the roster, the
\* member rows below it the same number.
C28_TeamFormatsMatchTeamRows ==
    (teamTab.values # <<>> /\ teamTab.rowFormats # <<>>) =>
        /\ \A k \in 1..Len(teamTab.rowFormats) :
              teamTab.rowFormats[k].endRowIndex
                 = teamTab.rowFormats[k].startRowIndex + 1
        /\ \A r \in TeamDataRows :
              /\ Cardinality(FormatsOf(r)) <= 1
              /\ Role(r) = Str("Team Lead") <=> StyledAs(r, {"team lead"})
              /\ Role(r) = Str("Member") <=> StyledAs(r, {"even member", "odd member"})
              /\ Role(r) = Str("Individual") <=> StyledAs(r, {"individual"})
              /\ Row(teamTab.values, r) = <<>> <=> FormatsOf(r) = {}
              /\ Row(teamTab.values, r) # <<>> =>
                    CellAt(teamTab.values, r, 1)
                       = Num(Cardinality({q \in EntryRows : q <= r}))
        /\ LET rostered == SelectSeq(registrations.a, IsRostered)
           IN  /\ Cardinality(EntryRows) = Len(rostered)
               /\ \A r \in EntryRows :
                     LET n == Cardinality({q \in EntryRows : q <= r})
                     IN  CellAt(teamTab.values, r, 4)
                            = Entered(rostered[n].participant_name)

\* C28 witness: an event of participation_type 'both' with an individual
\* and then a team of three: the individual format on row 6, no format on
\* the separator row 7, the team-lead format on row 8 under team number 2,
\* the member formats on rows 9 and 10.
C28_Witness ==
    /\ pc = "returned"
    /\ registrations.a = <<MinimalReg, TeamReg>>
    /\ Len(teamTab.rowFormats) = 6
    /\ SubSeq(teamTab.rowFormats, 3, 6)
          = <<RowFormat(5, "individual"), RowFormat(7, "team lead"),
              RowFormat(8, "even member"), RowFormat(9, "odd member")>>
    /\ Role(6) = Str("Individual")
    /\ Row(teamTab.values, 7) = <<>>
    /\ Role(8) = Str("Team Lead")
    /\ CellAt(teamTab.values, 8, 1) = Num(2)
    /\ Role(10) = Str("Member")

(***************************************************************************)
(* Properties of populateDashboardSheet (SpecDashboard).                   *)
(***************************************************************************)
\* The team members of all registrations, as pairs <<i, j>>: member j of
\* registration i.
AllTeamMembers ==
    UNION {{<<i, j>> : j \in 1..Len(registrations.a[i].additional_info.team_members.a)} :
             i \in {k \in 1..Len(registrations.a) :
                      registrations.a[k].additional_info.t = "object"}}

MemberAt(p) == registrations.a[p[1]].additional_info.team_members.a[p[2]]

\* The text a department or year is counted under.
CountedUnder(v) ==
    IF v.t = "string" /\ v.s # "" THEN v.s
    ELSE IF v.t = "number" /\ v.n # 0 THEN ToString(v.n)
    ELSE "Unknown"

RegDepartment(i) ==
    IF registrations.a[i].additional_info.t = "object"
    THEN registrations.a[i].additional_info.department ELSE Undef

RegYear(i) ==
    IF registrations.a[i].additional_info.t = "object"
    THEN registrations.a[i].additional_info.year ELSE Undef

RECURSIVE SumOver(_, _)
\* The sum of the counts of a table over the keys in K.
SumOver(counts, K) ==
    IF K = {} THEN 0
    ELSE LET k == CHOOSE x \in K : TRUE
         IN  counts[k] + SumOver(counts, K \ {k})

\* C20: in the dashboard written, Total Participants is
\* registrations.length plus the number of team members; each department
\* (year) count is the number of registrations plus the number of team
\* members of that department (year), a missing one counting as 'Unknown';
\* and the department counts and the year counts each sum to Total
\* Participants.
C20_DashboardTotals ==
    (pc = "returned" /\ dashboard # <<>>) =>
        LET d == dashboard[1]
            n == Len(registrations.a)
        IN  /\ d.totalParticipants = n + Cardinality(AllTeamMembers)
            /\ \A k \in DOMAIN d.departmentCounts :
                  d.departmentCounts[k] =
                      Cardinality({i \in 1..n : CountedUnder(RegDepartment(i)) = k})
                        + Cardinality({p \in AllTeamMembers :
                                         CountedUnder(MemberAt(p).department) = k})
            /\ \A k \in DOMAIN d.yearCounts :
                  d.yearCounts[k] =
                      Cardinality({i \in 1..n : CountedUnder(RegYear(i)) = k})
                        + Cardinality({p \in AllTeamMembers :
                                         CountedUnder(MemberAt(p).year) = k})
            /\ \A p \in AllTeamMembers :
                  /\ CountedUnder(MemberAt(p).department) \in DOMAIN d.departmentCounts
                  /\ CountedUnder(MemberAt(p).year) \in DOMAIN d.yearCounts
            /\ SumOver(d.departmentCounts, DOMAIN d.departmentCounts)
                  = d.totalParticipants
            /\ SumOver(d.yearCounts, DOMAIN d.yearCounts) = d.totalParticipants

\* C20 witness: a dashboard written for two teams, whose members fall
\* under 'Unknown' and under departments and years of their own.
C20_Witness ==
    /\ pc = "returned"
    /\ registrations.a = <<TeamReg, FullReg>>
    /\ dashboard[1].totalParticipants = 5
    /\ dashboard[1].departmentCounts["ECE"] = 3
    /\ dashboard[1].departmentCounts["Unknown"] = 1
    /\ dashboard[1].yearCounts["3"] = 3
    /\ dashboard[1].yearCounts["Unknown"] = 2

\* The text of a number of tenths: 337 is "33.7".
OneDecimal(tenths) == ToString(tenths \div 10) \o "." \o ToString(tenths % 10)

\* text is part / whole as a percentage, rounded to one decimal.
IsPercentageOf(text, part, whole) ==
    /\ whole > 0
    /\ \E t \in 0..1000 :
          /\ text = OneDecimal(t) \o "%"
          /\ 2 * (1000 * part - t * whole) <= whole
          /\ 2 * (t * whole - 1000 * part) <= whole

AttendedRegistrations ==
    {i \in 1..Len(registrations.a) :
        registrations.a[i].attendance_status = Str("attended")}

\* C21: in the dashboard written, Total Attended + Not Attended is Total
\* Registrations, the Attendance Rate is attended / registrations as a
\* percentage with one decimal and '0.0%' when there is no registration, and
\* every cell of the two Percentage columns is count / participants as a
\* percentage with one decimal (never the print of a division by zero).
C21_AttendanceFigures ==
    pc = "returned" =>
        LET d == dashboard[1]
        IN  /\ d.totalRegistrations = Len(registrations.a)
            /\ d.attendedCount = Cardinality(AttendedRegistrations)
            /\ d.attendedCount + d.notAttendedCount = d.totalRegistrations
            /\ d.notAttendedCount >= 0
            /\ IF d.totalRegistrations = 0
               THEN d.attendanceRate = "0.0%"
               ELSE IsPercentageOf(d.attendanceRate, d.attendedCount,
                                   d.totalRegistrations)
            /\ DOMAIN d.departmentPercentages = DOMAIN d.departmentCounts
            /\ DOMAIN d.yearPercentages = DOMAIN d.yearCounts
            /\ \A k \in DOMAIN d.departmentCounts :
                  IsPercentageOf(d.departmentPercentages[k], d.departmentCounts[k],
                                 d.totalParticipants)
            /\ \A k \in DOMAIN d.yearCounts :
                  IsPercentageOf(d.yearPercentages[k], d.yearCounts[k],
                                 d.totalParticipants)

\* C21 witness: a dashboard written for no registration at all: the rate is
\* '0.0%' and both distribution tables are empty.
C21_Witness ==
    /\ pc = "returned"
    /\ registrations.a = <<>>
    /\ dashboard[1].attendanceRate = "0.0%"
    /\ dashboard[1].notAttendedCount = 0
    /\ DOMAIN dashboard[1].departmentPercentages = {}

(***************************************************************************)
(* Properties of updateEventSheet (SpecUpdate, SpecConcurrent).            *)
(***************************************************************************)
\* What prepareSheetData yields for the inputs of invocation u.
NewData(u) == prepareSheetData(upd[u].eventData, upd[u].registrations)

Succeeded(u) == upd[u].pc = "returned" /\ upd[u].status = "success"

\* C15: after a successful update, row 1 and row 3 of the Registrations tab
\* hold the cell values they held before the call.
C15_TitleAndHeaderRowsKept ==
    Succeeded(1) =>
        /\ Row(grid, 1) = Row(before, 1)
        /\ Row(grid, 3) = Row(before, 3)

\* C16: after a successful update the data region (row 4 onward, columns
\* A..Z) holds exactly the rows prepareSheetData yields for the new
\* registrations, in order, and nothing else.
C16_DataRegionIsTheNewRows ==
    Succeeded(1) =>
        LET rows == NewData(1).rows
        IN  /\ Len(grid) <= 3 + Len(rows)
            /\ \A r \in 4..(3 + Len(rows)), c \in 1..26 :
                  CellAt(grid, r, c) =
                      IF c <= Len(rows[r - 3]) THEN Entered(rows[r - 3][c])
                      ELSE Str("")

\* C16 witness: a successful update with one registration of a sheet that
\* held two rows and more columns.
C16_Witness ==
    /\ Succeeded(1)
    /\ Len(before) = 5
    /\ Len(upd[1].registrations.a) = 1
    /\ Len(NewData(1).headers) < Len(Row(before, 3))
    /\ Len(grid) = 4

CallsOf(u) == {upd[u].calls[i] : i \in 1..Len(upd[u].calls)}

\* C17: a failure of the Team Members refresh or of the Dashboard refresh
\* never makes updateEventSheet throw: the call goes on and returns
\* success; and after a failed Team Members refresh the Dashboard refresh
\* is still attempted when the tab exists.
C17_RefreshFailuresAreTolerated ==
    /\ (upd[1].failed \cap {"populateTeamMembers", "clearDashboard",
                            "populateDashboard"} # {}) =>
          /\ upd[1].pc # "thrown"
          /\ upd[1].pc # "returned" => ENABLED UpdateStep(1)
          /\ upd[1].pc = "returned" => upd[1].status = "success"
    /\ ("populateTeamMembers" \in upd[1].failed /\ HasTab("Dashboard")) =>
          "values.clear Dashboard" \in CallsOf(1)
    /\ ("clearDashboard" \in upd[1].failed) =>
          "values.update Dashboard" \in CallsOf(1)

\* C17 witness: success returned although both refreshes failed.
C17_Witness ==
    /\ Succeeded(1)
    /\ upd[1].failed = {"populateTeamMembers", "clearDashboard", "populateDashboard"}
    /\ "values.update Dashboard" \in CallsOf(1)

\* C18: a failure of the formatting call, after the data has been
\* rewritten, does not fail the update.
C18_FormatFailureStillSucceeds ==
    "formatSheet" \in upd[1].failed => upd[1].pc # "thrown"

\* The data region of a tab: its rows from row 4 on.
DataRegion(g) == IF Len(g) >= 4 THEN SubSeq(g, 4, Len(g)) ELSE <<>>

\* The rows of a Team Members tab that hold a team lead, a member or an
\* individual: those from row 6 on that are not blank.
RosterRows(g) == {r \in 6..Len(g) : g[r] # <<>>}

\* The people the registrations of invocation u put on the roster: the lead
\* and the members of every team and, for an event of participation_type
\* 'both', everyone else.
RosterOf(u) ==
    LET regs == upd[u].registrations.a
    IN  UNION {IF HasTeamMembers(regs[i])
               THEN {<<i, j>> : j \in 0..Len(regs[i].additional_info.team_members.a)}
               ELSE IF upd[u].eventData.participation_type = Str("both")
               THEN {<<i, 0>>}
               ELSE {} : i \in 1..Len(regs)}

\* C24: after a successful update of a spreadsheet that has a 'Team
\* Members' tab (the refresh itself not having failed), the tab holds one
\* row for each person on the roster of the new registrations and no other:
\* no row of the previous registrations remains.
C24_TeamTabIsTheNewRoster ==
    (Succeeded(1) /\ HasTab("Team Members")
       /\ "populateTeamMembers" \notin upd[1].failed) =>
        Cardinality(RosterRows(teamTab.values)) = Cardinality(RosterOf(1))

\* C27: every grid range among the formatting requests updateEventSheet
\* builds for the Registrations tab is non-empty and lies inside the rows
\* and columns written, whatever the number of registrations.
C27_FormatRangesAreNonEmpty ==
    \A k \in 1..Len(upd[1].requests) :
        LET range == upd[1].requests[k]
        IN  /\ range.startRowIndex < range.endRowIndex
            /\ range.startColumnIndex < range.endColumnIndex
            /\ range.endRowIndex <= Len(upd[1].registrations.a) + 3
            /\ range.endColumnIndex <= Len(NewData(1).headers)

\* The dashboard key a Department or Year cell of the Registrations tab
\* stands for: 'N/A' in the grid is 'Unknown' on the dashboard.
KeyOfCell(cell) == IF cell = Str("N/A") THEN "Unknown" ELSE JsString(cell)

\* The team members of the registrations of invocation 1, as pairs.
NewTeamMembers ==
    LET regs == upd[1].registrations.a
    IN  UNION {IF HasTeamMembers(regs[i])
               THEN {<<i, j>> : j \in 1..Len(regs[i].additional_info.team_members.a)}
               ELSE {} : i \in 1..Len(regs)}

NewMember(p) == upd[1].registrations.a[p[1]].additional_info.team_members.a[p[2]]

KeyOfMember(v) == IF Truthy(v) THEN JsString(v) ELSE "Unknown"

\* The number of rows of the Registrations tab whose cell in the given
\* column stands for key, plus the number of team members under that key.
GridAndMembers(column, property, key) ==
    Cardinality({r \in 4..Len(grid) : KeyOfCell(CellAt(grid, r, column)) = key})
      + Cardinality({p \in NewTeamMembers : KeyOfMember(NewMember(p)[property]) = key})

DashboardCount(counts, key) == IF key \in DOMAIN counts THEN counts[key] ELSE 0

\* The keys that occur on the dashboard or in the column of the grid.
KeysOf(counts, column) ==
    DOMAIN counts \cup {KeyOfCell(CellAt(grid, r, column)) : r \in 4..Len(grid)}

\* C29: after an update that has written both tabs, the dashboard count of
\* every department is the number of rows of the Registrations tab with
\* that Department cell (column F) plus the number of team members of that
\* department, 'Unknown' standing for 'N/A'; likewise for the years
\* (column G).
C29_DashboardAgreesWithGrid ==
    (Succeeded(1) /\ upd[1].failed = {} /\ HasTab("Dashboard")) =>
        /\ \A key \in KeysOf(dashboard[1].departmentCounts, 6) :
              DashboardCount(dashboard[1].departmentCounts, key)
                 = GridAndMembers(6, "department", key)
        /\ \A key \in KeysOf(dashboard[1].yearCounts, 7) :
              DashboardCount(dashboard[1].yearCounts, key)
                 = GridAndMembers(7, "year", key)

\* C26: when updateEventSheet throws, the data region of the Registrations
\* tab holds the rows it held before the call.
C26_FailedUpdateLeavesTheSheet ==
    upd[1].status = "thrown" => DataRegion(grid) = DataRegion(before)

\* The Registrations tab invocation u leaves when it runs alone.
Alone(u) == ValuesUpdate(ValuesClear(before), AllData(upd[u].eventData, NewData(u)))

\* C19: when both of two interleaved updates of one spreadsheet have
\* succeeded, the Registrations tab holds what one of them would have left
\* alone, never rows of both.
C19_LastWriterWins ==
    (Succeeded(1) /\ Succeeded(2)) =>
        \E u \in {1, 2} :
            /\ DataRegion(grid) = DataRegion(Alone(u))
            /\ Row(grid, 1) = Row(Alone(u), 1)

(***************************************************************************)
(* Properties of the routes (SpecRoute).                                   *)
(***************************************************************************)
Answered(route) == pc = "responded" /\ request.route = route

\* The create call of this request failed with the given code.
CreateFailedWithCode(code) ==
    \E f \in failed : Includes(f, "spreadsheets.create " \o ToString(code) \o " ")

\* The create call of this request failed with a network error.
CreateFailedOnNetwork ==
    \E f \in failed :
        /\ Includes(f, "spreadsheets.create ")
        /\ Includes(f, "ENOTFOUND") \/ Includes(f, "network")

\* C12: on POST /create, a network failure of the spreadsheet-create call
\* (message containing ENOTFOUND or 'network') is answered with HTTP 503
\* and success:false.
C12_NetworkFailureIs503 ==
    (Answered("POST /create") /\ CreateFailedOnNetwork) =>
        (response.status = 503 /\ response.success = FALSE)

\* Some custom field of the body is no object or lacks a text id or label.
BodyFieldMalformed ==
    /\ request.body.eventData.t = "object"
    /\ request.body.eventData.custom_fields.t = "array"
    /\ \E i \in 1..Len(request.body.eventData.custom_fields.a) :
          LET field == request.body.eventData.custom_fields.a[i]
          IN  \/ field.t # "object"
              \/ field.id.t # "string"
              \/ field.label.t # "string"

\* C13: on POST /create, a failure of the create call with code 401 or 403
\* is answered with 401, one with code 429 with 429, a malformed custom
\* field with 400, a failure of no class (here codes 400 and 500) with 500;
\* each with success:false.
C13_CreateFailureStatusCodes ==
    Answered("POST /create") =>
        /\ (CreateFailedWithCode(401) \/ CreateFailedWithCode(403)) =>
              (response.status = 401 /\ response.success = FALSE)
        /\ CreateFailedWithCode(429) =>
              (response.status = 429 /\ response.success = FALSE)
        /\ BodyFieldMalformed =>
              (response.status = 400 /\ response.success = FALSE)
        /\ (CreateFailedWithCode(400) \/ CreateFailedWithCode(500)) =>
              (response.status = 500 /\ response.success = FALSE)

\* C13 witness: a create call refused with code 403 has been answered
\* with 401.
C13_Witness ==
    /\ Answered("POST /create")
    /\ CreateFailedWithCode(403)
    /\ response.status = 401
    /\ response.error = "Authentication error"

\* The body lacks the event id or title, or has a registration without a
\* name or with an email that holds no '@'.
BodyInvalid ==
    LET e == request.body.eventData
        r == request.body.registrations
    IN  \/ e.t # "object"
        \/ e.id.t \notin {"string", "number"}
        \/ e.title.t # "string"
        \/ r.t = "array" /\ \E i \in 1..Len(r.a) :
              \/ r.a[i].t # "object"
              \/ r.a[i].participant_name.t # "string"
              \/ r.a[i].participant_email.t # "string"
              \/ ~Includes(r.a[i].participant_email.s, "@")

BodyEmpty ==
    request.body.registrations.t = "array" /\ request.body.registrations.a = <<>>

\* No service method has been called and no remote call issued.
NothingInvoked ==
    /\ invoked = {}
    /\ calls = <<>>
    /\ upd[1].pc = "absent"

\* C14: on POST /create and PUT /:spreadsheetId/update a body that fails
\* the schema, and on create also an empty registrations list, is answered
\* with 400 and the violations (for the empty list, a message), and the
\* service is never called for that request.
C14_InvalidBodyIs400 ==
    (request.route \in Routes
       /\ (BodyInvalid \/ (request.route = "POST /create" /\ BodyEmpty))) =>
        /\ NothingInvoked
        /\ pc \in {"request", "responded"}
        /\ pc = "responded" =>
              /\ response.status = 400
              /\ response.success = FALSE
              /\ response.details # <<>> \/ response.message # ""
              /\ BodyInvalid => response.details # <<>>

\* C14 witness: a create request without event id and with a nameless
\* registration has been answered with 400 and both violations.
C14_Witness ==
    /\ Answered("POST /create")
    /\ response.status = 400
    /\ response.details = <<"eventData.id", "registrations.1.participant_name">>
    /\ NothingInvoked

\* The upstream failure that made the service method of this request throw
\* had the given code.
UpstreamFailedWithCode(code) ==
    \E f \in failed \cup upd[1].failed :
        \E method \in {"getSheetInfo", "deleteSheet", "updateEventSheet"} :
            Includes(f, method \o " " \o ToString(code) \o " ")

UpstreamFailed ==
    \E error \in RemoteErrors : UpstreamFailedWithCode(error.code)

\* C30: on GET /:spreadsheetId, DELETE /:spreadsheetId and
\* PUT /:spreadsheetId/update, an upstream failure with code 404 is answered
\* with 404 and one with code 403 with 403, whatever its message; every
\* other failure is answered with 500.
C30_StatusFollowsUpstreamCode ==
    (pc = "responded" /\ request.route # "POST /create" /\ UpstreamFailed) =>
        response.status = IF UpstreamFailedWithCode(404) THEN 404
                          ELSE IF UpstreamFailedWithCode(403) THEN 403
                          ELSE 500

====
